---- MODULE Spec2Model ----
(***************************************************************************)
(* Resume screening: the scoring engine (src/scoring_engine.py), the text  *)
(* analyzer that feeds it (src/nlp_analyzer.py) and the scoring block of   *)
(* the application (src/app.py).                                           *)
(*                                                                         *)
(* Representation                                                          *)
(*   - Python str        : TLA+ string; characters are one-character       *)
(*                         strings taken with SubSeq.                      *)
(*   - Python values of a candidate dict: tagged records                   *)
(*         [t |-> "str", v |-> "..."]   [t |-> "list", v |-> <<...>>]      *)
(*         [t |-> "none"]               [t |-> "float", v |-> tenths]      *)
(*     a key that is absent from the dict is absent from the function.     *)
(*   - Python float      : an exact rational <<numerator, denominator>>    *)
(*                         in lowest terms, denominator > 0.               *)
(*   - round(x, 1)       : the integer number of tenths nearest to x,      *)
(*                         ties to the even tenth.                         *)
(*   - a weight          : integer hundredths (0.4 is 40).                 *)
(***************************************************************************)
EXTENDS Integers, Sequences, FiniteSets, TLC

(***************************************************************************)
(* Characters and strings                                                  *)
(***************************************************************************)
UpperLetters == "ABCDEFGHIJKLMNOPQRSTUVWXYZ"
LowerLetters == "abcdefghijklmnopqrstuvwxyz"
DigitChars == "0123456789"

CharAt(s, i) == SubSeq(s, i, i)

\* the position of character c in the string alphabet, 0 when absent
IndexIn(alphabet, c) ==
    IF \E i \in 1..Len(alphabet) : CharAt(alphabet, i) = c
    THEN CHOOSE i \in 1..Len(alphabet) : CharAt(alphabet, i) = c
    ELSE 0

\* the lower-case letter of every upper-case letter
upper_to_lower ==
    [c \in {CharAt(UpperLetters, i) : i \in 1..26} |->
        CharAt(LowerLetters, IndexIn(UpperLetters, c))]

lower_to_upper ==
    [c \in {CharAt(LowerLetters, i) : i \in 1..26} |->
        CharAt(UpperLetters, IndexIn(LowerLetters, c))]

LowerChar(c) == IF c \in DOMAIN upper_to_lower THEN upper_to_lower[c] ELSE c

RECURSIVE lower(_)
\* str.lower(), the string halved at every step
lower(s) ==
    IF Len(s) <= 1 THEN LowerChar(s)
    ELSE lower(SubSeq(s, 1, Len(s) \div 2)) \o lower(SubSeq(s, Len(s) \div 2 + 1, Len(s)))

IsDigit(c) == c \in {"0", "1", "2", "3", "4", "5", "6", "7", "8", "9"}
IsAlpha(c) == c \in DOMAIN upper_to_lower \/ c \in DOMAIN lower_to_upper
\* the regular-expression class \s
IsSpace(c) == c \in {" ", "\t", "\n", "\r", "\f"}

\* lit occurs in s starting at position i
StartsWithAt(s, i, lit) ==
    /\ i >= 1
    /\ i + Len(lit) - 1 <= Len(s)
    /\ SubSeq(s, i, i + Len(lit) - 1) = lit

\* Python's "needle in hay" for two strings
Contains(needle, hay) ==
    \E i \in 1..(Len(hay) - Len(needle) + 1) : StartsWithAt(hay, i, needle)

RECURSIVE ParseDigits(_, _)
\* int() of a string of digits, acc is the value of the digits read so far
ParseDigits(s, acc) ==
    IF s = "" THEN acc
    ELSE ParseDigits(Tail(s), 10 * acc + (IndexIn(DigitChars, Head(s)) - 1))

int(s) == ParseDigits(s, 0)

RECURSIVE str(_)
\* str() of a non-negative integer
str(n) ==
    IF n < 10 THEN CharAt(DigitChars, n + 1)
    ELSE str(n \div 10) \o CharAt(DigitChars, (n % 10) + 1)

Minimum(S) == CHOOSE m \in S : \A n \in S : m <= n
Maximum(S) == CHOOSE m \in S : \A n \in S : m >= n

\* the last position of the run of digits that starts at i (i - 1 when the
\* character at i is no digit): the greedy \d+
DigitRunEnd(s, i) ==
    LET stops == {j \in i..Len(s) : ~IsDigit(CharAt(s, j))}
    IN  IF stops = {} THEN Len(s) ELSE Minimum(stops) - 1

\* the first position at or after i that holds no white space: the greedy \s*
SkipSpaces(s, i) ==
    LET stops == {j \in i..Len(s) : ~IsSpace(CharAt(s, j))}
    IN  IF stops = {} THEN (IF i > Len(s) THEN i ELSE Len(s) + 1) ELSE Minimum(stops)

\* i starts a maximal run of digits of s
IsDigitRunStart(s, i) ==
    /\ i \in 1..Len(s)
    /\ IsDigit(CharAt(s, i))
    /\ (i = 1 \/ ~IsDigit(CharAt(s, i - 1)))

DigitRunAt(s, i) == SubSeq(s, i, DigitRunEnd(s, i))

(***************************************************************************)
(* Exact arithmetic standing for the floats of the engine                  *)
(***************************************************************************)
Abs(n) == IF n < 0 THEN -n ELSE n

RECURSIVE Gcd(_, _)
Gcd(a, b) == IF b = 0 THEN a ELSE Gcd(b, a % b)

\* the rational n/d in lowest terms with a positive denominator
Rat(n, d) ==
    LET g == Gcd(Abs(n), Abs(d))
        sgn == IF d < 0 THEN -1 ELSE 1
    IN  <<sgn * (n \div g), sgn * (d \div g)>>

RInt(n) == <<n, 1>>
RAdd(a, b) == Rat(a[1] * b[2] + b[1] * a[2], a[2] * b[2])
RSub(a, b) == Rat(a[1] * b[2] - b[1] * a[2], a[2] * b[2])
RMul(a, b) == Rat(a[1] * b[1], a[2] * b[2])
RLe(a, b) == a[1] * b[2] <= b[1] * a[2]
RLt(a, b) == a[1] * b[2] < b[1] * a[2]
RMin(a, b) == IF RLe(a, b) THEN a ELSE b
RMax(a, b) == IF RLe(b, a) THEN a ELSE b

\* round(x, 1), as a number of tenths
round1(x) ==
    LET n == 10 * x[1]
        d == x[2]
        fl == n \div d
        rem2 == 2 * (n - fl * d)
    IN  IF rem2 > d \/ (rem2 = d /\ fl % 2 = 1) THEN fl + 1 ELSE fl

\* the float that a number of tenths stands for
Tenths(t) == Rat(t, 10)

(***************************************************************************)
(* Python values of a candidate dict                                       *)
(***************************************************************************)
Str(s) == [t |-> "str", v |-> s]
List(q) == [t |-> "list", v |-> q]
Float(tenths) == [t |-> "float", v |-> tenths]
None == [t |-> "none"]

\* Python truthiness: "not x" is ~Truthy(x)
Truthy(x) ==
    CASE x.t = "str" -> x.v # ""
      [] x.t = "list" -> x.v # <<>>
      [] x.t = "float" -> x.v # 0
      [] OTHER -> FALSE

\* dict.get(key, default)
get(d, key, default) == IF key \in DOMAIN d THEN d[key] ELSE default

RECURSIVE ReprItems(_)
\* the items of repr() of a list of str
ReprItems(q) ==
    IF q = <<>> THEN ""
    ELSE "'" \o Head(q) \o "'" \o (IF Len(q) > 1 THEN ", " ELSE "") \o ReprItems(Tail(q))

\* str(x) of a candidate value; a float prints its tenths
pystr(x) ==
    CASE x.t = "str" -> x.v
      [] x.t = "float" -> (IF x.v < 0 THEN "-" ELSE "")
                          \o str(Abs(x.v) \div 10) \o "." \o str(Abs(x.v) % 10)
      [] x.t = "list" -> "[" \o ReprItems(x.v) \o "]"
      [] OTHER -> "None"

\* the sequence of characters that iterating over a str yields
Chars(s) == [i \in 1..Len(s) |-> CharAt(s, i)]

\* a float result that stands for "the call raised": no number has denominator 0
Raised == <<0, 0>>
IsRaised(x) == x[2] = 0

(***************************************************************************)
(* ScoringEngine._extract_years_from_text                                  *)
(***************************************************************************)
\* (\d+)\s*(?:\+)?\s*<unit> matches s from position i, where unit is the
\* literal "year" or "yr"; the optional final s never changes group 1.  A match
\* begins at the start of a maximal digit run: \d+ is greedy and what follows it
\* cannot begin with a digit.
UnitMatchAt(s, i, unit) ==
    /\ IsDigitRunStart(s, i)
    /\ LET j == SkipSpaces(s, DigitRunEnd(s, i) + 1)
           k == IF j <= Len(s) /\ CharAt(s, j) = "+" THEN SkipSpaces(s, j + 1) ELSE j
       IN  StartsWithAt(s, k, unit)

\* ~(\d+) matches s from position i
ApproxMatchAt(s, i) ==
    /\ i \in 1..(Len(s) - 1)
    /\ CharAt(s, i) = "~"
    /\ IsDigit(CharAt(s, i + 1))

\* ^(\d+)$ : digits only, "$" also matching before one final newline
BareNumberBody(s) ==
    IF s # "" /\ CharAt(s, Len(s)) = "\n" THEN SubSeq(s, 1, Len(s) - 1) ELSE s

BareNumberMatch(s) ==
    LET b == BareNumberBody(s)
    IN  b # "" /\ DigitRunEnd(b, 1) = Len(b)

\* re.findall(pattern, s) for the four year patterns, in the order of the list
\* year_patterns: the captured digit strings, leftmost match first
YearMatchStarts(s, p) ==
    CASE p = 1 -> {i \in 1..Len(s) : UnitMatchAt(s, i, "year")}
      [] p = 2 -> {i \in 1..Len(s) : UnitMatchAt(s, i, "yr")}
      [] p = 3 -> IF BareNumberMatch(s) THEN {1} ELSE {}
      [] OTHER -> {i + 1 : i \in {j \in 1..Len(s) : ApproxMatchAt(s, j)}}

\* matches[0]: the digits captured by the first match of pattern p
FirstYearMatch(s, p) == DigitRunAt(s, Minimum(YearMatchStarts(s, p)))

RECURSIVE YearsOfFirstPattern(_, _)
\* the bug of returning the first match without the range test
YearsOfFirstPattern(s, p) ==
    IF p > 4 THEN 0
    ELSE IF YearMatchStarts(s, p) # {} THEN int(FirstYearMatch(s, p))
    ELSE YearsOfFirstPattern(s, p + 1)

RECURSIVE YearsWithoutApproximate(_, _)
\* the bug of leaving out the pattern of the estimate "~N"
YearsWithoutApproximate(s, p) ==
    IF p > 3 THEN 0
    ELSE IF YearMatchStarts(s, p) # {}
              /\ 0 < int(FirstYearMatch(s, p)) /\ int(FirstYearMatch(s, p)) < 50
         THEN int(FirstYearMatch(s, p))
         ELSE YearsWithoutApproximate(s, p + 1)

RECURSIVE YearsFromPatterns(_, _)
\* the loop over year_patterns, from pattern p on
YearsFromPatterns(s, p) ==
    IF p > 4 THEN 0
    ELSE IF YearMatchStarts(s, p) # {}
              /\ 0 < int(FirstYearMatch(s, p)) /\ int(FirstYearMatch(s, p)) < 50
         THEN int(FirstYearMatch(s, p))
         ELSE YearsFromPatterns(s, p + 1)

_extract_years_from_text(text) ==
    IF ~Truthy(text) \/ text \in {Str("Not Specified"), Str("Unknown")}
    THEN 0
    ELSE YearsFromPatterns(lower(pystr(text)), 1)

(***************************************************************************)
(* ScoringEngine._score_experience_match                                   *)
(***************************************************************************)
\* lines 187-205: the score of candidate_years against required_years
ExperienceScore(candidate_years, required_years) ==
    IF required_years = 0 THEN RInt(75)
    ELSE IF candidate_years = 0 THEN RInt(30)
    ELSE IF candidate_years >= required_years
    THEN LET excess_ratio == Rat(candidate_years, required_years)
         IN  IF RLe(excess_ratio, Rat(3, 2)) THEN RInt(100)
             ELSE RMax(RInt(85),
                       RSub(RInt(100), RMul(RSub(excess_ratio, Rat(3, 2)), RInt(10))))
    ELSE LET ratio == Rat(candidate_years, required_years)
         IN  RMul(ratio, RInt(80))

\* the bug of reading the candidate's years with int(): a ValueError for
\* anything but a string of digits
_score_experience_match_int(candidate_experience, required_experience) ==
    IF /\ candidate_experience.t = "str"
       /\ candidate_experience.v # ""
       /\ DigitRunEnd(candidate_experience.v, 1) = Len(candidate_experience.v)
    THEN ExperienceScore(int(candidate_experience.v),
                         _extract_years_from_text(required_experience))
    ELSE Raised

\* the bug of testing the candidate before the requirement
_score_experience_match_swapped(candidate_experience, required_experience) ==
    LET candidate_years == _extract_years_from_text(candidate_experience)
        required_years == _extract_years_from_text(required_experience)
    IN  IF candidate_years = 0 THEN RInt(30)
        ELSE ExperienceScore(candidate_years, required_years)

\* lines 176-209; the except branch (line 207) is not reached: the years are
\* integers and required_years is not 0 where it divides
_score_experience_match(candidate_experience, required_experience) ==
    LET candidate_years == _extract_years_from_text(candidate_experience)
        required_years == _extract_years_from_text(required_experience)
    IN  ExperienceScore(candidate_years, required_years)

(***************************************************************************)
(* ScoringEngine._is_skill_variant and _score_skills_match                 *)
(***************************************************************************)
\* the dict "variants": main skill and its list of variants
variants ==
    << <<"javascript", <<"js", "ecmascript">> >>,
       <<"typescript", <<"ts">> >>,
       <<"python", <<"py">> >>,
       <<"machine learning", <<"ml", "ai", "artificial intelligence">> >>,
       <<"database", <<"db", "sql">> >>,
       <<"user interface", <<"ui">> >>,
       <<"user experience", <<"ux">> >>,
       <<"cascading style sheets", <<"css">> >>,
       <<"hypertext markup language", <<"html">> >>,
       <<"node.js", <<"nodejs", "node">> >>,
       <<"react.js", <<"react", "reactjs">> >>,
       <<"angular.js", <<"angular", "angularjs">> >>,
       <<"vue.js", <<"vue", "vuejs">> >> >>

\* x in a list
InList(x, list) == \E i \in 1..Len(list) : list[i] = x

\* the bug of leaving out the third clause: two variants of one main skill
_is_skill_variant_of_main_only(skill1, skill2) ==
    \E m \in 1..Len(variants) :
        LET main_skill == variants[m][1]
            variant_list == variants[m][2]
        IN  \/ skill1 = main_skill /\ InList(skill2, variant_list)
            \/ skill2 = main_skill /\ InList(skill1, variant_list)

_is_skill_variant(skill1, skill2) ==
    \E m \in 1..Len(variants) :
        LET main_skill == variants[m][1]
            variant_list == variants[m][2]
        IN  \/ skill1 = main_skill /\ InList(skill2, variant_list)
            \/ skill2 = main_skill /\ InList(skill1, variant_list)
            \/ InList(skill1, variant_list) /\ InList(skill2, variant_list)

\* what iterating over a candidate value yields: the items of a list, the
\* characters of a str
Iterate(x) == IF x.t = "str" THEN Chars(x.v) ELSE x.v

\* [skill.lower() for skill in skills]
LowerAll(skills) == [i \in 1..Len(skills) |-> lower(skills[i])]

\* the bug of leaving the inner loop after the first candidate skill
HasPartialMatchWithFirst(required_skill, candidate_skills_lower) ==
    /\ candidate_skills_lower # <<>>
    /\ LET candidate_skill == candidate_skills_lower[1]
       IN  \/ Contains(required_skill, candidate_skill)
           \/ Contains(candidate_skill, required_skill)
           \/ _is_skill_variant(required_skill, candidate_skill)

\* the inner loop of _score_skills_match: some candidate skill sets the break
HasPartialMatch(required_skill, candidate_skills_lower) ==
    \E i \in 1..Len(candidate_skills_lower) :
        LET candidate_skill == candidate_skills_lower[i]
        IN  \/ Contains(required_skill, candidate_skill)
            \/ Contains(candidate_skill, required_skill)
            \/ _is_skill_variant(required_skill, candidate_skill)

RECURSIVE SkillsLoop(_, _, _, _)
\* the loop over required_skills_lower: <<exact_matches, partial_matches>>
SkillsLoop(required_skills_lower, candidate_skills_lower, exact_matches, partial_matches) ==
    IF required_skills_lower = <<>> THEN <<exact_matches, partial_matches>>
    ELSE LET required_skill == Head(required_skills_lower)
         IN  IF InList(required_skill, candidate_skills_lower)
             THEN SkillsLoop(Tail(required_skills_lower), candidate_skills_lower,
                             exact_matches + 1, partial_matches)
             ELSE IF HasPartialMatch(required_skill, candidate_skills_lower)
             THEN SkillsLoop(Tail(required_skills_lower), candidate_skills_lower,
                             exact_matches, partial_matches + 1)
             ELSE SkillsLoop(Tail(required_skills_lower), candidate_skills_lower,
                             exact_matches, partial_matches)

\* the bug of weighing a partial match like an exact one
_score_skills_match_partial_full(candidate_skills, required_skills) ==
    IF required_skills = <<>> \/ ~Truthy(candidate_skills) THEN RInt(0)
    ELSE LET m == SkillsLoop(LowerAll(required_skills),
                             LowerAll(Iterate(candidate_skills)), 0, 0)
         IN  RMin(RMul(Rat(m[1] + m[2], Len(required_skills)), RInt(100)), RInt(100))

\* the bug of dividing by the number of candidate skills
_score_skills_match_per_candidate_skill(candidate_skills, required_skills) ==
    IF required_skills = <<>> \/ ~Truthy(candidate_skills) THEN RInt(0)
    ELSE LET m == SkillsLoop(LowerAll(required_skills),
                             LowerAll(Iterate(candidate_skills)), 0, 0)
         IN  RMin(RMul(Rat(m[1] * 10 + m[2] * 7, 10 * Len(Iterate(candidate_skills))),
                       RInt(100)), RInt(100))

_score_skills_match(candidate_skills, required_skills) ==
    IF required_skills = <<>> \/ ~Truthy(candidate_skills) THEN RInt(0)
    ELSE IF candidate_skills.t = "float" THEN Raised
    ELSE LET candidate_skills_lower == LowerAll(Iterate(candidate_skills))
             required_skills_lower == LowerAll(required_skills)
             m == SkillsLoop(required_skills_lower, candidate_skills_lower, 0, 0)
             total_required == Len(required_skills_lower)
             \* exact_weight = 1.0 and partial_weight = 0.7, in tenths
             score == Rat(m[1] * 10 + m[2] * 7, 10 * total_required)
         IN  RMin(RMul(score, RInt(100)), RInt(100))

(***************************************************************************)
(* ScoringEngine._score_education_match                                    *)
(***************************************************************************)
education_levels ==
    << <<"phd", 6>>, <<"doctorate", 6>>,
       <<"master", 5>>, <<"masters", 5>>, <<"msc", 5>>, <<"ma", 5>>, <<"mba", 5>>,
       <<"mtech", 5>>, <<"me", 5>>,
       <<"bachelor", 4>>, <<"bachelors", 4>>, <<"bsc", 4>>, <<"ba", 4>>,
       <<"btech", 4>>, <<"be", 4>>,
       <<"associate", 3>>,
       <<"diploma", 2>>,
       <<"certificate", 1>> >>

\* the level the loop over education_levels leaves for a lower-cased text
EducationLevel(text_lower) ==
    Maximum({0} \cup {education_levels[i][2] : i \in
                {j \in 1..Len(education_levels) :
                    Contains(education_levels[j][1], text_lower)}})

\* the bug of testing the candidate's text before the requirement's
_score_education_match_candidate_first(candidate_education, required_education) ==
    IF ~Truthy(candidate_education) \/ candidate_education = Str("Not Specified")
    THEN RInt(40)
    ELSE IF required_education = "" \/ required_education = "Not specified"
    THEN RInt(75)
    ELSE LET candidate_level == EducationLevel(lower(pystr(candidate_education)))
             required_level == EducationLevel(lower(required_education))
         IN  IF candidate_level = 0 THEN RInt(50)
             ELSE IF required_level = 0 THEN RInt(70)
             ELSE IF candidate_level >= required_level THEN RInt(100)
             ELSE IF candidate_level = required_level - 1 THEN RInt(75)
             ELSE IF candidate_level = required_level - 2 THEN RInt(50)
             ELSE RInt(25)

_score_education_match(candidate_education, required_education) ==
    IF required_education = "" \/ required_education = "Not specified" THEN RInt(75)
    ELSE IF ~Truthy(candidate_education) \/ candidate_education = Str("Not Specified")
    THEN RInt(40)
    ELSE IF candidate_education.t # "str" THEN Raised
    ELSE LET candidate_level == EducationLevel(lower(candidate_education.v))
             required_level == EducationLevel(lower(required_education))
         IN  IF required_level = 0 THEN RInt(70)
             ELSE IF candidate_level = 0 THEN RInt(50)
             ELSE IF candidate_level >= required_level THEN RInt(100)
             ELSE IF candidate_level = required_level - 1 THEN RInt(75)
             ELSE IF candidate_level = required_level - 2 THEN RInt(50)
             ELSE RInt(25)

(***************************************************************************)
(* ScoringEngine._score_keyword_relevance                                  *)
(***************************************************************************)
\* the bug of scoring a job without keywords 0 instead of neutral
_score_keyword_relevance_no_neutral(candidate_text, important_keywords) ==
    IF important_keywords = <<>> THEN RInt(0)
    ELSE IF ~Truthy(candidate_text) THEN RInt(50)
    ELSE IF candidate_text.t # "str" THEN Raised
    ELSE LET total_keywords == Len(important_keywords)
             matches == Cardinality({i \in 1..total_keywords :
                            Contains(lower(important_keywords[i]),
                                     lower(candidate_text.v))})
         IN  RMul(Rat(matches, total_keywords), RInt(100))

\* the bug of comparing the keywords with their case
_score_keyword_relevance_case_sensitive(candidate_text, important_keywords) ==
    IF important_keywords = <<>> \/ ~Truthy(candidate_text) THEN RInt(50)
    ELSE IF candidate_text.t # "str" THEN Raised
    ELSE LET total_keywords == Len(important_keywords)
             matches == Cardinality({i \in 1..total_keywords :
                            Contains(important_keywords[i], candidate_text.v)})
         IN  RMul(Rat(matches, total_keywords), RInt(100))

_score_keyword_relevance(candidate_text, important_keywords) ==
    IF important_keywords = <<>> \/ ~Truthy(candidate_text) THEN RInt(50)
    ELSE IF candidate_text.t # "str" THEN Raised
    ELSE LET candidate_text_lower == lower(candidate_text.v)
             total_keywords == Len(important_keywords)
             matches == Cardinality({i \in 1..total_keywords :
                            Contains(lower(important_keywords[i]), candidate_text_lower)})
         IN  RMul(Rat(matches, total_keywords), RInt(100))

(***************************************************************************)
(* NLPAnalyzer: the curated vocabulary and the regular-expression          *)
(* extractors of analyze_job_requirements                                  *)
(***************************************************************************)
\* _load_technical_skills, the categories concatenated in dict order
technical_skills ==
    <<"python", "java", "javascript", "c++", "c#", "php", "ruby", "go",
      "rust", "scala", "typescript", "kotlin", "swift", "r", "matlab",
      "html", "css", "react", "angular", "vue", "node.js", "express",
      "django", "flask", "spring", "asp.net", "jquery", "bootstrap",
      "mysql", "postgresql", "mongodb", "redis", "elasticsearch",
      "sqlite", "oracle", "sql server", "cassandra", "dynamodb",
      "aws", "azure", "gcp", "docker", "kubernetes", "jenkins",
      "terraform", "ansible", "git", "github", "gitlab",
      "machine learning", "data science", "tensorflow", "pytorch",
      "scikit-learn", "pandas", "numpy", "matplotlib", "tableau", "spark",
      "android", "ios", "react native", "flutter", "xamarin", "ionic">>

requirement_headers ==
    <<"requirements", "required skills", "qualifications", "must have",
      "essential skills", "technical requirements", "preferred skills">>

\* the cue phrases of skill_patterns, "experience (?:with|in) " written out
skill_cues ==
    <<"experience with ", "experience in ", "knowledge of ", "proficient in ",
      "familiar with ", "skilled in ">>

\* str.strip()
strip(s) ==
    LET solid == {j \in 1..Len(s) : ~IsSpace(CharAt(s, j))}
    IN  IF solid = {} THEN "" ELSE SubSeq(s, Minimum(solid), Maximum(solid))

RECURSIVE split_lines(_)
\* text.split('\n')
split_lines(text) ==
    LET breaks == {i \in 1..Len(text) : CharAt(text, i) = "\n"}
    IN  IF breaks = {} THEN <<text>>
        ELSE <<SubSeq(text, 1, Minimum(breaks) - 1)>>
             \o split_lines(SubSeq(text, Minimum(breaks) + 1, Len(text)))

UpperChar(c) == IF c \in DOMAIN lower_to_upper THEN lower_to_upper[c] ELSE c

RECURSIVE Title(_, _, _)
\* str.title() of the characters from..to of s: a letter after a non-letter
\* is upper-cased, other letters lowered
Title(s, from, to) ==
    IF from > to THEN ""
    ELSE IF from = to
         THEN IF from > 1 /\ IsAlpha(CharAt(s, from - 1)) THEN LowerChar(CharAt(s, from))
              ELSE UpperChar(CharAt(s, from))
         ELSE Title(s, from, (from + to) \div 2) \o Title(s, (from + to) \div 2 + 1, to)

title(s) == Title(s, 1, Len(s))

RECURSIVE SectionBody_from_50(_, _, _, _)
\* the bug of ending the section at a blank line after 50 characters already
SectionBody_from_50(lines, j, last, section_text) ==
    IF j > last THEN section_text
    ELSE IF strip(lines[j]) # ""
         THEN SectionBody_from_50(lines, j + 1, last, section_text \o lines[j] \o "\n")
         ELSE IF Len(section_text) >= 50 THEN section_text
         ELSE SectionBody_from_50(lines, j + 1, last, section_text)

RECURSIVE SectionBody(_, _, _, _)
\* the loop "for j in range(i + 1, min(i + 15, len(lines)))" from index j
\* (1-based) to index last, section_text collected so far
SectionBody(lines, j, last, section_text) ==
    IF j > last THEN section_text
    ELSE IF strip(lines[j]) # ""
         THEN SectionBody(lines, j + 1, last, section_text \o lines[j] \o "\n")
         ELSE IF Len(section_text) > 50 THEN section_text
         ELSE SectionBody(lines, j + 1, last, section_text)

\* line i (1-based) is a requirements heading
IsHeaderLine(line) ==
    /\ \E h \in 1..Len(requirement_headers) :
          Contains(requirement_headers[h], strip(lower(line)))
    /\ Len(strip(line)) < 100

RECURSIVE SectionsFrom(_, _)
SectionsFrom(lines, i) ==
    IF i > Len(lines) THEN <<>>
    ELSE IF IsHeaderLine(lines[i])
         \* 0-based range(i0 + 1, min(i0 + 15, n)) is 1-based i + 1 .. min(i + 14, n)
         THEN <<SectionBody(lines, i + 1,
                            IF i + 14 < Len(lines) THEN i + 14 ELSE Len(lines), "")>>
              \o SectionsFrom(lines, i + 1)
         ELSE SectionsFrom(lines, i + 1)

_find_requirements_sections(text) == SectionsFrom(split_lines(text), 1)

\* the class [a-zA-Z0-9\.\+\s]
IsSkillChar(c) == IsAlpha(c) \/ IsDigit(c) \/ c \in {".", "+"} \/ IsSpace(c)

\* the last position of the run of class characters that starts at i
SkillRunEnd(s, i) ==
    LET stops == {j \in i..Len(s) : ~IsSkillChar(CharAt(s, j))}
    IN  IF stops = {} THEN Len(s) ELSE Minimum(stops) - 1

\* cue c followed by at least one character of the class matches s from i
CueMatchAt(s, i, c) ==
    /\ StartsWithAt(s, i, skill_cues[c])
    /\ i + Len(skill_cues[c]) <= Len(s)
    /\ IsSkillChar(CharAt(s, i + Len(skill_cues[c])))

RECURSIVE CueMatches(_, _, _)
\* re.finditer for the cues cs (one pattern) from position p on: the captured
\* groups, matches not overlapping
CueMatches(s, p, cs) ==
    LET starts == {i \in p..Len(s) : \E c \in cs : CueMatchAt(s, i, c)}
    IN  IF starts = {} THEN <<>>
        ELSE LET i == Minimum(starts)
                 c == CHOOSE c \in cs : CueMatchAt(s, i, c)
                 e == SkillRunEnd(s, i + Len(skill_cues[c]))
             IN  <<SubSeq(s, i + Len(skill_cues[c]), e)>> \o CueMatches(s, e + 1, cs)

\* the cue indices of the five patterns of skill_patterns
skill_patterns == <<{1, 2}, {3}, {4}, {5}, {6}>>

RECURSIVE KeepSkills(_)
\* strip, keep 2 < len < 50, title-case
KeepSkills(groups) ==
    IF groups = <<>> THEN <<>>
    ELSE LET skill == strip(Head(groups))
         IN  (IF Len(skill) > 2 /\ Len(skill) < 50 THEN <<title(skill)>> ELSE <<>>)
             \o KeepSkills(Tail(groups))

RECURSIVE ParseSkillPatterns(_, _)
ParseSkillPatterns(text_lower, p) ==
    IF p > Len(skill_patterns) THEN <<>>
    ELSE KeepSkills(CueMatches(text_lower, 1, skill_patterns[p]))
         \o ParseSkillPatterns(text_lower, p + 1)

_parse_skills_from_requirements(text) == ParseSkillPatterns(lower(text), 1)

Range(q) == {q[i] : i \in 1..Len(q)}

RECURSIVE SectionSkills(_)
SectionSkills(sections) ==
    IF sections = <<>> THEN {}
    ELSE Range(_parse_skills_from_requirements(Head(sections)))
         \cup SectionSkills(Tail(sections))

\* set(found_skills) of _extract_required_skills
RequiredSkillSet(text) ==
    LET text_lower == lower(text)
    IN  {technical_skills[i] : i \in {j \in 1..Len(technical_skills) :
                                       Contains(lower(technical_skills[j]), text_lower)}}
        \cup SectionSkills(_find_requirements_sections(text))

\* the lists a set can be turned into: list(set(...)) fixes no order
Orderings(S) ==
    {q \in [1..Cardinality(S) -> S] : \A i, j \in 1..Cardinality(S) : q[i] = q[j] => i = j}

\* the values _extract_required_skills can return
_extract_required_skills(text) == Orderings(RequiredSkillSet(text))

(***************************************************************************)
(* NLPAnalyzer._extract_experience_requirements                            *)
(***************************************************************************)
\* the position after \s+ read from i, 0 when no white space stands at i
AfterSpaces1(s, i) ==
    IF i <= Len(s) /\ IsSpace(CharAt(s, i)) THEN SkipSpaces(s, i) ELSE 0

\* the position after the optional character c read from i
AfterOptional(s, i, c) == IF StartsWithAt(s, i, c) THEN i + 1 ELSE i

\* (\d+)(?:\+)?\s*<unit>s?\s+<tail> matches s from i; tail is read by After
\* patterns 1 and 4: unit "year" with tail (?:of\s+)?experience, unit "yr"
\* with tail experience
ExperienceFormAt(s, i, unit, optional_of) ==
    /\ IsDigitRunStart(s, i)
    /\ LET a == AfterOptional(s, DigitRunEnd(s, i) + 1, "+")
           b == SkipSpaces(s, a)
       IN  /\ StartsWithAt(s, b, unit)
           /\ LET c == AfterSpaces1(s, AfterOptional(s, b + Len(unit), "s"))
                  d == IF optional_of /\ c # 0 /\ StartsWithAt(s, c, "of")
                          /\ AfterSpaces1(s, c + 2) # 0
                       THEN AfterSpaces1(s, c + 2) ELSE c
              IN  c # 0 /\ StartsWithAt(s, d, "experience")

\* <lead>\s+(\d+)\s+years? matches s from i: the position of the digits, else 0
LeadFormDigits(s, i, lead) ==
    IF StartsWithAt(s, i, lead)
    THEN LET a == AfterSpaces1(s, i + Len(lead))
         IN  IF a # 0 /\ a <= Len(s) /\ IsDigit(CharAt(s, a))
                /\ AfterSpaces1(s, DigitRunEnd(s, a) + 1) # 0
                /\ StartsWithAt(s, AfterSpaces1(s, DigitRunEnd(s, a) + 1), "year")
             THEN a ELSE 0
    ELSE 0

\* group(1) of every match of the four experience_patterns, as numbers
ExperienceYearsFound(text_lower) ==
    LET n == Len(text_lower)
        p1 == {int(DigitRunAt(text_lower, i)) : i \in
                  {j \in 1..n : ExperienceFormAt(text_lower, j, "year", TRUE)}}
        p2 == {int(DigitRunAt(text_lower, LeadFormDigits(text_lower, i, "minimum"))) : i \in
                  {j \in 1..n : LeadFormDigits(text_lower, j, "minimum") # 0}}
        p3 == {int(DigitRunAt(text_lower, LeadFormDigits(text_lower, i, "at least"))) : i \in
                  {j \in 1..n : LeadFormDigits(text_lower, j, "at least") # 0}}
        p4 == {int(DigitRunAt(text_lower, i)) : i \in
                  {j \in 1..n : ExperienceFormAt(text_lower, j, "yr", FALSE)}}
    IN  {y \in p1 \cup p2 \cup p3 \cup p4 : 0 < y /\ y < 20}

_extract_experience_requirements(text) ==
    LET years_found == ExperienceYearsFound(lower(text))
    IN  IF years_found # {} THEN str(Minimum(years_found)) \o " years"
        ELSE "Not specified"

(***************************************************************************)
(* NLPAnalyzer._extract_education_requirements                             *)
(***************************************************************************)
degree_words == <<"bachelor", "master", "phd", "doctorate">>
document_words == <<"degree", "diploma", "certificate">>

IsLowerLetter(c) == c \in DOMAIN lower_to_upper

RECURSIVE LowerRunEnd(_, _, _)
\* the last position of at most max lower-case letters read from i
LowerRunEnd(s, i, max) ==
    IF max > 0 /\ i <= Len(s) /\ IsLowerLetter(CharAt(s, i))
    THEN LowerRunEnd(s, i + 1, max - 1) ELSE i - 1

\* the end of the match of (b\.?[a-z]{2,4}|m\.?[a-z]{2,4}) from i, 0 if none
AbbrevEnd(s, i) ==
    IF i <= Len(s) /\ CharAt(s, i) \in {"b", "m"}
    THEN LET a == AfterOptional(s, i + 1, ".")
             e == LowerRunEnd(s, a, 4)
         IN  IF e - a + 1 >= 2 THEN e ELSE 0
    ELSE 0

\* the end of the match of (bachelor[s]?|master[s]?|phd|doctorate) from i
DegreeEnd(s, i) ==
    IF \E w \in 1..Len(degree_words) : StartsWithAt(s, i, degree_words[w])
    THEN LET w == CHOOSE w \in 1..Len(degree_words) : StartsWithAt(s, i, degree_words[w])
             e == i + Len(degree_words[w]) - 1
         IN  IF w <= 2 /\ StartsWithAt(s, e + 1, "s") THEN e + 1 ELSE e
    ELSE 0

\* the end of the match of (degree|diploma|certificate) from i
DocumentEnd(s, i) ==
    IF \E w \in 1..Len(document_words) : StartsWithAt(s, i, document_words[w])
    THEN LET w == CHOOSE w \in 1..Len(document_words) : StartsWithAt(s, i, document_words[w])
         IN  i + Len(document_words[w]) - 1
    ELSE 0

\* the end of the match of education pattern p from i
EducationEnd(s, i, p) ==
    CASE p = 1 -> DegreeEnd(s, i)
      [] p = 2 -> DocumentEnd(s, i)
      [] OTHER -> AbbrevEnd(s, i)

RECURSIVE EducationMatches(_, _, _)
\* re.finditer of education pattern p from position i: the matched texts,
\* matches not overlapping
EducationMatches(s, i, p) ==
    LET starts == {j \in i..Len(s) : EducationEnd(s, j, p) # 0}
    IN  IF starts = {} THEN {}
        ELSE LET j == Minimum(starts)
                 e == EducationEnd(s, j, p)
             IN  {SubSeq(s, j, e)} \cup EducationMatches(s, e + 1, p)

RECURSIVE Join(_, _)
\* sep.join(list)
Join(sep, q) ==
    IF q = <<>> THEN ""
    ELSE IF Len(q) = 1 THEN q[1]
    ELSE q[1] \o sep \o Join(sep, Tail(q))

EducationFound(text_lower) ==
    EducationMatches(text_lower, 1, 1) \cup EducationMatches(text_lower, 1, 2)
    \cup EducationMatches(text_lower, 1, 3)

\* the values _extract_education_requirements can return: set() fixes no order
_extract_education_requirements(text) ==
    LET education_found == EducationFound(lower(text))
    IN  IF education_found # {}
        THEN {Join(" | ", q) : q \in Orderings(education_found)}
        ELSE {"Not specified"}

(***************************************************************************)
(* The linguistic backend self.nlp (spaCy) as the analyzer uses it: a Doc  *)
(* is the sequence of its tokens; a token has text, lemma_, is_stop and    *)
(* is_punct.  Tokens are the maximal runs of characters without white      *)
(* space.                                                                  *)
(***************************************************************************)
RECURSIVE Tokens(_, _)
\* the tokens of s from position i on
Tokens(s, i) ==
    LET from == SkipSpaces(s, i)
        spaces == {j \in from..Len(s) : IsSpace(CharAt(s, j))}
        to == IF spaces = {} THEN Len(s) ELSE Minimum(spaces) - 1
    IN  IF from > Len(s) THEN <<>>
        ELSE <<SubSeq(s, from, to)>> \o Tokens(s, to + 1)

\* doc = self.nlp(text)
nlp(text) == Tokens(text, 1)

\* entries of the backend's stop list
stop_words == {"a", "an", "and", "the", "in", "of", "with", "for", "to", "is", "at", "or"}
is_stop(token) == lower(token) \in stop_words

punctuation == {".", ",", ";", ":", "!", "?", "(", ")", "-", "|"}
is_punct(token) == \A i \in 1..Len(token) : CharAt(token, i) \in punctuation

\* inflected forms the backend's lemmatizer reduces
lemma_table == << <<"years", "year">>, <<"yrs", "yr">>, <<"skills", "skill">> >>
lemma_(token) ==
    IF \E i \in 1..Len(lemma_table) : lemma_table[i][1] = token
    THEN lemma_table[CHOOSE i \in 1..Len(lemma_table) : lemma_table[i][1] = token][2]
    ELSE token

\* [f(x) for x in q if keep(x)] for the two comprehensions over a Doc
RECURSIVE KeywordTokens(_)
KeywordTokens(doc) ==
    IF doc = <<>> THEN <<>>
    ELSE (IF ~is_stop(Head(doc)) /\ ~is_punct(Head(doc)) /\ Len(Head(doc)) > 2
          THEN <<lower(lemma_(Head(doc)))>> ELSE <<>>) \o KeywordTokens(Tail(doc))

RECURSIVE ContentLemmas(_)
ContentLemmas(doc) ==
    IF doc = <<>> THEN <<>>
    ELSE (IF ~is_stop(Head(doc)) /\ ~is_punct(Head(doc))
          THEN <<lemma_(Head(doc))>> ELSE <<>>) \o ContentLemmas(Tail(doc))

(***************************************************************************)
(* NLPAnalyzer._extract_important_keywords                                 *)
(***************************************************************************)
\* Counter(tokens)[x]
Count(tokens, x) == Cardinality({i \in 1..Len(tokens) : tokens[i] = x})
FirstIndex(tokens, x) == Minimum({i \in 1..Len(tokens) : tokens[i] = x})

RECURSIVE MostCommon(_, _, _)
\* Counter(tokens).most_common(n) restricted to the words of rest: by
\* descending count, equal counts in order of first insertion
MostCommon(tokens, rest, n) ==
    IF n = 0 \/ rest = {} THEN <<>>
    ELSE LET best == CHOOSE x \in rest : \A y \in rest :
                        \/ Count(tokens, x) > Count(tokens, y)
                        \/ /\ Count(tokens, x) = Count(tokens, y)
                           /\ FirstIndex(tokens, x) <= FirstIndex(tokens, y)
         IN  <<best>> \o MostCommon(tokens, rest \ {best}, n - 1)

RECURSIVE FirstDistinct(_, _, _)
\* the first n distinct words of tokens that are not in seen
FirstDistinct(tokens, seen, n) ==
    IF n = 0 \/ tokens = <<>> THEN <<>>
    ELSE IF Head(tokens) \in seen THEN FirstDistinct(Tail(tokens), seen, n)
    ELSE <<Head(tokens)>> \o FirstDistinct(Tail(tokens), seen \cup {Head(tokens)}, n - 1)

\* the bug of returning the words as they come, not by frequency
_extract_important_keywords_unranked(doc) ==
    FirstDistinct(KeywordTokens(doc), {}, 20)

_extract_important_keywords(doc) ==
    LET tokens == KeywordTokens(doc)
    IN  MostCommon(tokens, Range(tokens), 20)

(***************************************************************************)
(* NLPAnalyzer.calculate_text_similarity and _token_similarity             *)
(***************************************************************************)
\* the floats Doc.similarity can return, in thousandths: a cosine
SimilarityValues == {-250, 1000}

\* what one evaluation of doc1.similarity(doc2) does
BackendOutcomes ==
    {[raises |-> TRUE, value |-> 0]}
    \cup {[raises |-> FALSE, value |-> v] : v \in SimilarityValues}

\* hasattr(doc1, 'similarity'): every Doc of the backend has the method
HasSimilarity == TRUE

\* the bug of dividing by the size of the first set instead of the union
_token_similarity_of_first(doc1, doc2) ==
    LET tokens1 == {lower(x) : x \in Range(ContentLemmas(doc1))}
        tokens2 == {lower(x) : x \in Range(ContentLemmas(doc2))}
    IN  IF tokens1 = {} \/ tokens2 = {} THEN RInt(0)
        ELSE Rat(Cardinality(tokens1 \cap tokens2), Cardinality(tokens1))

_token_similarity(doc1, doc2) ==
    LET tokens1 == {lower(x) : x \in Range(ContentLemmas(doc1))}
        tokens2 == {lower(x) : x \in Range(ContentLemmas(doc2))}
    IN  IF tokens1 = {} \/ tokens2 = {} THEN RInt(0)
        ELSE Rat(Cardinality(tokens1 \cap tokens2), Cardinality(tokens1 \cup tokens2))

\* the bug of leaving out the try block
calculate_text_similarity_uncaught(text1, text2, outcome) ==
    IF text1.t # "str" \/ outcome.raises THEN Raised
    ELSE Rat(outcome.value, 1000)

\* text1 is a candidate value, text2 a str; outcome is what the backend does
\* inside the try block: nlp() on either text or the similarity raises, or
\* the similarity returns a value
calculate_text_similarity(text1, text2, outcome) ==
    IF text1.t # "str" THEN RInt(0)            \* text1.lower() raises: caught
    ELSE IF HasSimilarity
         THEN IF outcome.raises THEN RInt(0)   \* except Exception: return 0.0
              ELSE Rat(outcome.value, 1000)
         ELSE _token_similarity(nlp(lower(text1.v)), nlp(lower(text2)))

\* the similarity of the backend is evaluated for these arguments
SimilarityEvaluated(candidate_text, description) ==
    /\ Truthy(candidate_text) /\ description # ""
    /\ candidate_text.t = "str" /\ HasSimilarity

_score_text_similarity(candidate_text, description, outcome) ==
    IF ~Truthy(candidate_text) \/ description = "" THEN RInt(0)
    ELSE LET similarity == calculate_text_similarity(candidate_text, description,
                                                     outcome)
         IN  IF IsRaised(similarity) THEN Raised    \* no try block in this scorer
             ELSE RMul(similarity, RInt(100))

(***************************************************************************)
(* The engine and one caller                                               *)
(***************************************************************************)
VARIABLES
    weights,            \* ScoringEngine.weights, in hundredths
    similarity_seen,    \* what the backend answered so far: it is a function of its arguments
    candidates,         \* the list passed to the running call of score_candidates
    job_description,    \* the text passed to the running call
    pc,                 \* where the call stands
    job_analysis,       \* local of score_candidates
    idx,                \* position of the loop "for candidate in candidates"
    components,         \* locals of _score_single_candidate: the five unrounded scores
    term,               \* the next term of the weighted sum to be evaluated
    overall_score,      \* the weighted sum evaluated so far
    scored_candidates,  \* local of score_candidates, returned at the end
    calls,              \* number of calls of score_candidates started
    input_at_call,      \* history: the input list as it was when the call started
    weights_at_call,    \* history: the weights when the call started
    weights_read,       \* history: per scored candidate, the five weights read for it
    appended,           \* history: scored_candidates as it was before the sort
    previous,           \* history: the last completed call
    foreign_installs,   \* number of times another session replaced the weights
    fcall,              \* a single call of one scorer on its own
    session             \* st.session_state of one browser session of the app

vars == <<weights, similarity_seen, candidates, job_description, pc, job_analysis,
          idx, components, term, overall_score, scored_candidates, calls,
          input_at_call, weights_at_call, weights_read, appended, previous,
          foreign_installs, fcall, session>>

engine_vars == <<weights, similarity_seen, job_description, pc,
                 job_analysis, idx, components, term, overall_score,
                 scored_candidates, calls, input_at_call, weights_at_call,
                 weights_read, appended, previous, foreign_installs>>

\* the calls of score_candidates one behaviour makes
MaxCalls == 2
\* the longest candidate list
MaxCandidates == 2
\* the times another session replaces the weights of the shared engine
MaxForeignInstalls == 1

weight_keys ==
    <<"skills_match", "experience_match", "education_match", "keyword_relevance",
      "text_similarity">>

score_keys ==
    <<"skills_score", "experience_score", "education_score", "keyword_score",
      "similarity_score">>

\* ScoringEngine.__init__
default_weights ==
    [skills_match |-> 40, experience_match |-> 25, education_match |-> 15,
     keyword_relevance |-> 15, text_similarity |-> 5]

\* the custom_weights a new session starts with, divided by 100 by the scoring block
session_weights ==
    [skills_match |-> 35, experience_match |-> 20, education_match |-> 15,
     keyword_relevance |-> 15, text_similarity |-> 10, semantic_similarity |-> 5]

\* every weight at 1.0: self.weights is an attribute any caller of the engine
\* can set (the sliders of the app keep their total at 100)
full_weights ==
    [skills_match |-> 100, experience_match |-> 100, education_match |-> 100,
     keyword_relevance |-> 100, text_similarity |-> 100]

\* weight sets a caller installs
WeightSets == {default_weights, session_weights, full_weights}

JobDescriptions == {"", "aws 3 yrs experience", "phd required"}

Candidate(filename, skills, experience_years, education, raw_text) ==
    [filename |-> Str(filename), skills |-> List(skills),
     experience_years |-> Str(experience_years), education |-> Str(education),
     raw_text |-> Str(raw_text)]

\* records as the extraction hands them over
CandidatePool ==
    {Candidate("a.pdf", <<"Python", "Docker">>, "5", "PhD in Physics", "python docker phd"),
     Candidate("b.pdf", <<"Python", "Docker">>, "5", "PhD in Physics", "python docker phd"),
     Candidate("c.pdf", <<"js">>, "2", "Diploma", "aws")}

\* the lists of at most n distinct elements of S
SeqsUpTo(S, n) ==
    {q \in UNION {[1..m -> S] : m \in 0..n} :
        \A i, j \in 1..Len(q) : q[i] = q[j] => i = j}

NoAnalysis ==
    [required_skills |-> <<>>, experience_requirements |-> "",
     education_requirements |-> "", important_keywords |-> <<>>,
     processed_text |-> <<>>]

NoCall == [op |-> "none"]
\* no session of the app is followed
NoSession == [phase |-> "none"]
NoPrevious == [completed |-> FALSE]

\* the engine after construction, no call made yet
EngineIdle ==
    /\ weights = default_weights
    /\ similarity_seen = {}
    /\ job_description = ""
    /\ pc = "idle"
    /\ job_analysis = NoAnalysis
    /\ idx = 0
    /\ components = <<>>
    /\ term = 0
    /\ overall_score = RInt(0)
    /\ scored_candidates = <<>>
    /\ calls = 0
    /\ input_at_call = <<>>
    /\ weights_at_call = default_weights
    /\ weights_read = <<>>
    /\ appended = <<>>
    /\ previous = NoPrevious
    /\ foreign_installs = 0

\* the caller holds a list of extracted records
Init ==
    /\ EngineIdle
    /\ candidates \in SeqsUpTo(CandidatePool, MaxCandidates)
    /\ fcall = NoCall
    /\ session = NoSession

(***************************************************************************)
(* NLPAnalyzer.analyze_job_requirements: the analyses one call can return  *)
(***************************************************************************)
analyze_job_requirements(text) ==
    LET doc == nlp(lower(text))
    IN  {[required_skills |-> rs,
          experience_requirements |-> _extract_experience_requirements(text),
          education_requirements |-> er,
          important_keywords |-> _extract_important_keywords(doc),
          processed_text |-> ContentLemmas(doc)] :
            rs \in _extract_required_skills(text),
            er \in _extract_education_requirements(text)}

\* analyze_job_requirements on the job descriptions of the model
job_analyses == [text \in JobDescriptions |-> analyze_job_requirements(text)]

(***************************************************************************)
(* app.py, scoring_engine.weights = {...} by the scoring block of a session *)
(***************************************************************************)
SetWeights(w) ==
    /\ weights' = w
    /\ UNCHANGED <<similarity_seen, candidates, job_description, pc, job_analysis,
                   idx, components, term, overall_score, scored_candidates, calls,
                   input_at_call, weights_at_call, weights_read, appended, previous,
                   fcall, session>>

\* the engine is shared: another session installs its weights at any moment
\* of a call (an installation between two calls is replaced by the next
\* scoring block)
ForeignInstallWeights ==
    \E w \in WeightSets :
        /\ pc \in {"score", "weigh", "merge", "sort"}
        /\ foreign_installs < MaxForeignInstalls
        /\ weights # w
        /\ SetWeights(w)
        /\ foreign_installs' = foreign_installs + 1

(***************************************************************************)
(* ScoringEngine.score_candidates, lines 32-34                             *)
(***************************************************************************)
\* the lists the caller passes: the list it holds, or the list its last call
\* returned
Inputs == {candidates} \cup (IF pc = "done" THEN {scored_candidates} ELSE {})

\* the bug of keeping the analysis of an earlier call
CachedAnalyses(text) == IF calls > 0 THEN {job_analysis} ELSE job_analyses[text]

\* line 32: job_analysis = self.nlp_analyzer.analyze_job_requirements(...),
\* the analyses that call can return
Analyses(text) == job_analyses[text]

Call(input, text, w) ==
    /\ pc \in {"idle", "done", "raised"}
    /\ weights' = w
    /\ calls < MaxCalls
    /\ calls' = calls + 1
    /\ candidates' = input
    /\ job_description' = text
    /\ job_analysis' \in Analyses(text)
    /\ scored_candidates' = <<>>
    /\ idx' = 1
    /\ pc' = IF input = <<>> THEN "sort" ELSE "score"
    /\ input_at_call' = input
    /\ weights_at_call' = w
    /\ weights_read' = <<>>
    /\ appended' = <<>>
    /\ previous' = IF pc = "done"
                   THEN [completed |-> TRUE, input |-> input_at_call,
                         job_description |-> job_description,
                         weights |-> weights_at_call, output |-> scored_candidates]
                   ELSE NoPrevious
    /\ UNCHANGED <<similarity_seen, components, term, overall_score,
                   foreign_installs, fcall>>

\* the text of the sidebar after the caller edited it
edited_job_description ==
    [text \in JobDescriptions |->
        CASE text = "" -> "aws 3 yrs experience"
          [] text = "aws 3 yrs experience" -> "phd required"
          [] OTHER -> ""]

\* the weights the caller installs instead of w when it changes them
moved_weights ==
    [w \in WeightSets |->
        CASE w = default_weights -> session_weights
          [] w = session_weights -> full_weights
          [] OTHER -> default_weights]

\* the calls the caller makes: any job description and weight set at first;
\* later its last call again, on the same list or on the list that call
\* returned, or with the job description edited, or with the weights changed
Calls ==
    IF calls = 0
    THEN {[input |-> candidates, text |-> text, weights |-> w] :
            text \in JobDescriptions, w \in WeightSets}
    ELSE {[input |-> input, text |-> job_description, weights |-> weights] :
            input \in Inputs}
         \cup {[input |-> candidates,
                text |-> edited_job_description[job_description],
                weights |-> weights],
               [input |-> candidates, text |-> job_description,
                weights |-> moved_weights[weights]]}

\* the scoring block: the weights are installed, then score_candidates runs
ScoreCandidates ==
    /\ \E c \in Calls : Call(c.input, c.text, c.weights)
    /\ UNCHANGED session

(***************************************************************************)
(* ScoringEngine._score_single_candidate                                   *)
(***************************************************************************)
\* the arguments the backend's similarity is evaluated on
SimilarityKey(candidate_text, text) == <<lower(candidate_text.v), lower(text)>>

\* the outcomes the backend can give for these arguments: the one it gave
\* before, any when it was never asked, a fixed one when it is not asked
OutcomesFor(candidate_text, text) ==
    IF ~SimilarityEvaluated(candidate_text, text)
    THEN {[raises |-> FALSE, value |-> 0]}
    ELSE IF \E e \in similarity_seen : e.key = SimilarityKey(candidate_text, text)
    THEN {e.outcome : e \in {x \in similarity_seen :
                                x.key = SimilarityKey(candidate_text, text)}}
    ELSE BackendOutcomes

\* lines 62-81: the first four component scores of a candidate
FirstComponents(candidate, analysis) ==
    <<_score_skills_match(get(candidate, "skills", List(<<>>)),
                          analysis.required_skills),
      _score_experience_match(get(candidate, "experience_years", Str("0")),
                              Str(analysis.experience_requirements)),
      _score_education_match(get(candidate, "education", Str("")),
                             analysis.education_requirements),
      _score_keyword_relevance(get(candidate, "raw_text", Str("")),
                               analysis.important_keywords)>>

\* lines 62-86; an exception of a scorer leaves _score_single_candidate, the
\* scorers after it are not called
ComputeComponents ==
    /\ pc = "score"
    /\ LET candidate == candidates[idx]
           raw_text == get(candidate, "raw_text", Str(""))
           first == FirstComponents(candidate, job_analysis)
       IN  IF \E i \in 1..4 : IsRaised(first[i])
           THEN /\ pc' = "raised"
                /\ UNCHANGED <<similarity_seen, components, term, overall_score>>
           ELSE \E outcome \in OutcomesFor(raw_text, job_description) :
                  LET similarity_score ==
                          _score_text_similarity(raw_text, job_description, outcome)
                  IN  /\ similarity_seen' =
                            IF SimilarityEvaluated(raw_text, job_description)
                            THEN similarity_seen \cup
                                 {[key |-> SimilarityKey(raw_text, job_description),
                                   outcome |-> outcome]}
                            ELSE similarity_seen
                      /\ IF IsRaised(similarity_score)
                         THEN /\ pc' = "raised"
                              /\ UNCHANGED <<components, term, overall_score>>
                         ELSE /\ components' = Append(first, similarity_score)
                              /\ pc' = "weigh"
                              /\ term' = 1
                              /\ overall_score' = RInt(0)
    /\ UNCHANGED <<weights, candidates, job_description, job_analysis, idx,
                   scored_candidates, calls, input_at_call, weights_at_call,
                   weights_read, appended, previous, foreign_installs,
                   fcall, session>>

\* the bug of adding a score without its weight
UnweightedTerm(score, w) == score

\* score * self.weights[key], the weight given in hundredths
WeightedTerm(score, w) == RMul(score, Rat(w, 100))

\* lines 89-95: one term "score * self.weights[key]" of the sum; each term
\* reads the dict that self.weights names at that moment
ReadWeight ==
    /\ pc = "weigh"
    /\ LET w == weights[weight_keys[term]]
       IN  /\ overall_score' = RAdd(overall_score, WeightedTerm(components[term], w))
           /\ weights_read' =
                 IF term = 1 THEN Append(weights_read, <<w>>)
                 ELSE [weights_read EXCEPT ![Len(weights_read)] = Append(@, w)]
    /\ term' = term + 1
    /\ pc' = IF term = 5 THEN "merge" ELSE "weigh"
    /\ UNCHANGED <<weights, similarity_seen, candidates, job_description,
                   job_analysis, idx, components, scored_candidates, calls,
                   input_at_call, weights_at_call, appended, previous, foreign_installs,
                   fcall, session>>

\* lines 97-104: the dict _score_single_candidate returns
ScoreDict(cs, overall) ==
    [skills_score |-> Float(round1(cs[1])),
     experience_score |-> Float(round1(cs[2])),
     education_score |-> Float(round1(cs[3])),
     keyword_score |-> Float(round1(cs[4])),
     similarity_score |-> Float(round1(cs[5])),
     overall_score |-> Float(round1(overall))]

\* dict.update: the keys of scores are set, the others kept
update(d, scores) ==
    [key \in DOMAIN d \cup DOMAIN scores |->
        IF key \in DOMAIN scores THEN scores[key] ELSE d[key]]

\* the bug of updating the caller's dict instead of a copy of it
MergeScoresInPlace(candidate, scores) ==
    [input |-> update(candidate, scores), scored |-> update(candidate, scores)]

\* lines 40-41: candidate.copy() and update(scores); input is the caller's
\* dict afterwards, scored the new dict
MergeScores(candidate, scores) ==
    [input |-> candidate, scored |-> update(candidate, scores)]

AppendScored ==
    /\ pc = "merge"
    /\ LET m == MergeScores(candidates[idx], ScoreDict(components, overall_score))
       IN  /\ candidates' = [candidates EXCEPT ![idx] = m.input]
           /\ scored_candidates' = Append(scored_candidates, m.scored)
    /\ idx' = idx + 1
    /\ pc' = IF idx = Len(candidates) THEN "sort" ELSE "score"
    /\ UNCHANGED <<weights, similarity_seen, job_description, job_analysis,
                   components, term, overall_score, calls, input_at_call,
                   weights_at_call, weights_read, appended, previous, foreign_installs,
                   fcall, session>>

(***************************************************************************)
(* ScoringEngine.score_candidates, lines 46-48                             *)
(***************************************************************************)
RECURSIVE InsertBeforeEqual(_, _)
\* the bug of placing x before the elements with an equal key
InsertBeforeEqual(sorted, x) ==
    IF sorted = <<>> THEN <<x>>
    ELSE IF Head(sorted).overall_score.v > x.overall_score.v
         THEN <<Head(sorted)>> \o InsertBeforeEqual(Tail(sorted), x)
         ELSE <<x>> \o sorted

RECURSIVE InsertDescending(_, _)
\* x goes behind every element whose key is not smaller
InsertDescending(sorted, x) ==
    IF sorted = <<>> THEN <<x>>
    ELSE IF Head(sorted).overall_score.v >= x.overall_score.v
         THEN <<Head(sorted)>> \o InsertDescending(Tail(sorted), x)
         ELSE <<x>> \o sorted

RECURSIVE SortDescending(_, _)
\* list.sort(key=overall_score, reverse=True): stable, sorted holds the part
\* of the list already placed
SortDescending(list, sorted) ==
    IF list = <<>> THEN sorted
    ELSE SortDescending(Tail(list), InsertDescending(sorted, Head(list)))

RECURSIVE Reverse(_)
Reverse(q) == IF q = <<>> THEN <<>> ELSE Reverse(Tail(q)) \o <<Head(q)>>

\* the bug of sorting ascending and reversing: equal keys come out reversed
sort_reversed_ties(list) == SortDescending(Reverse(list), <<>>)

sort(list) == SortDescending(list, <<>>)

SortAndReturn ==
    /\ pc = "sort"
    /\ appended' = scored_candidates
    /\ scored_candidates' = sort(scored_candidates)
    /\ pc' = "done"
    /\ UNCHANGED <<weights, similarity_seen, candidates, job_description,
                   job_analysis, idx, components, term, overall_score, calls,
                   input_at_call, weights_at_call, weights_read, previous, foreign_installs,
                   fcall, session>>

(***************************************************************************)
(* One session using the engine: the scoring block runs to its end before  *)
(* anything else happens                                                   *)
(***************************************************************************)
Next ==
    \/ ScoreCandidates
    \/ ComputeComponents
    \/ ReadWeight
    \/ AppendScored
    \/ SortAndReturn

Spec == Init /\ [][Next]_vars

(***************************************************************************)
(* The engine shared by several sessions (st.cache_resource): the weights  *)
(* can be replaced while a call runs                                       *)
(***************************************************************************)
\* the first call of a behaviour
FirstCall == calls = 0 /\ ScoreCandidates

NextShared ==
    \/ ForeignInstallWeights
    \/ FirstCall
    \/ ComputeComponents
    \/ ReadWeight
    \/ AppendScored
    \/ SortAndReturn

SpecShared == Init /\ [][NextShared]_vars

(***************************************************************************)
(* One call on one record whose fields are missing or degraded             *)
(***************************************************************************)
FieldKinds == {"absent", "empty", "sentinel", "unparseable", "given"}

FieldValue(field, kind) ==
    CASE kind = "sentinel" -> Str("Not Specified")
      [] kind = "empty" -> IF field = "skills" THEN List(<<>>) ELSE Str("")
      [] kind = "unparseable" -> IF field = "experience_years" THEN Str("several")
                                 ELSE Str("n/a")
      [] field = "skills" -> List(<<"Python", "AWS">>)
      [] field = "experience_years" -> Str("5")
      [] field = "education" -> Str("PhD in Physics")
      [] OTHER -> Str("python aws")

\* the dict with key field unless the kind is "absent"
Field(field, kind) ==
    IF kind = "absent" THEN <<>> ELSE field :> FieldValue(field, kind)

DegradedCandidates ==
    {("filename" :> Str("d.pdf")) @@ Field("skills", k1) @@ Field("experience_years", k2)
        @@ Field("education", k3) @@ Field("raw_text", k4) :
            k1 \in FieldKinds, k2 \in FieldKinds, k3 \in FieldKinds, k4 \in FieldKinds}

InitDegraded ==
    /\ EngineIdle
    /\ candidates \in {<<c>> : c \in DegradedCandidates}
    /\ fcall = NoCall
    /\ session = NoSession

NextDegraded ==
    \/ FirstCall
    \/ ComputeComponents
    \/ ReadWeight
    \/ AppendScored
    \/ SortAndReturn

SpecDegraded == InitDegraded /\ [][NextDegraded]_vars

(***************************************************************************)
(* The scorers called on their own                                         *)
(***************************************************************************)
\* the longest skill list
MaxSkills == 2
\* the largest number of years written into an experience text
MaxYears == 50

RequiredSkillPool == {"Python", "python", "AWS", "JavaScript", "js"}
CandidateSkillPool == {"python", "Docker", "js", "java", "ecmascript"}

SkillsCalls ==
    {[op |-> "_score_skills_match", args |-> <<List(cs), rs>>,
      returned |-> FALSE, result |-> RInt(0)] :
        cs \in SeqsUpTo(CandidateSkillPool, MaxSkills),
        rs \in SeqsUpTo(RequiredSkillPool, MaxSkills)}

CandidateExperienceTexts ==
    {Str(str(n)) : n \in 0..MaxYears} \cup {Str("Not Specified"), Str("~4"), Str("")}

RequiredExperienceTexts ==
    {Str(str(n) \o " years") : n \in 0..MaxYears} \cup {Str("Not specified")}

ExperienceCalls ==
    {[op |-> "_score_experience_match", args |-> <<c, r>>,
      returned |-> FALSE, result |-> RInt(0)] :
        c \in CandidateExperienceTexts, r \in RequiredExperienceTexts}

InitSkills ==
    EngineIdle /\ candidates = <<>> /\ fcall \in SkillsCalls /\ session = NoSession

InitExperience ==
    EngineIdle /\ candidates = <<>> /\ fcall \in ExperienceCalls /\ session = NoSession

Return(value) ==
    /\ ~fcall.returned
    /\ fcall' = [fcall EXCEPT !.returned = TRUE, !.result = value]
    /\ UNCHANGED engine_vars
    /\ UNCHANGED <<candidates, session>>

CallSkillsMatch ==
    /\ fcall.op = "_score_skills_match"
    /\ Return(_score_skills_match(fcall.args[1], fcall.args[2]))

CallExperienceMatch ==
    /\ fcall.op = "_score_experience_match"
    /\ Return(_score_experience_match(fcall.args[1], fcall.args[2]))

SpecSkills == InitSkills /\ [][CallSkillsMatch]_vars

SpecExperience == InitExperience /\ [][CallExperienceMatch]_vars

(***************************************************************************)
(* ScoringEngine.get_scoring_breakdown                                     *)
(***************************************************************************)
\* candidate.get(key, 0) for a score field, in tenths
Score(candidate, key) == IF key \in DOMAIN candidate THEN candidate[key].v ELSE 0

strength_messages ==
    <<"Strong skill match with job requirements",
      "Excellent experience level for the role",
      "Educational background aligns well with requirements",
      "Resume contains relevant industry keywords">>

weakness_messages ==
    <<"Limited skill overlap with job requirements",
      "Experience level may not meet job requirements",
      "Educational background differs from typical requirements",
      "Resume could benefit from more relevant industry keywords">>

\* strengths.append(message) when the condition holds
AppendIf(condition, message) == IF condition THEN <<message>> ELSE <<>>

\* the bug of a strict comparison with the thresholds
_identify_strengths_strict(candidate) ==
    AppendIf(Score(candidate, "skills_score") > 800, strength_messages[1])
    \o AppendIf(Score(candidate, "experience_score") > 800, strength_messages[2])
    \o AppendIf(Score(candidate, "education_score") > 800, strength_messages[3])
    \o AppendIf(Score(candidate, "keyword_score") > 700, strength_messages[4])

_identify_strengths(candidate) ==
    AppendIf(Score(candidate, "skills_score") >= 800, strength_messages[1])
    \o AppendIf(Score(candidate, "experience_score") >= 800, strength_messages[2])
    \o AppendIf(Score(candidate, "education_score") >= 800, strength_messages[3])
    \o AppendIf(Score(candidate, "keyword_score") >= 700, strength_messages[4])

_identify_weaknesses(candidate) ==
    AppendIf(Score(candidate, "skills_score") < 500, weakness_messages[1])
    \o AppendIf(Score(candidate, "experience_score") < 500, weakness_messages[2])
    \o AppendIf(Score(candidate, "education_score") < 500, weakness_messages[3])
    \o AppendIf(Score(candidate, "keyword_score") < 400, weakness_messages[4])

\* the keys of 'component_scores'
component_labels ==
    <<"Skills Match", "Experience Match", "Education Match", "Keyword Relevance",
      "Text Similarity">>

\* the dict get_scoring_breakdown returns; score in tenths, weight in
\* hundredths, contribution their product as a rational
get_scoring_breakdown(candidate) ==
    [component_scores |->
        [label \in Range(component_labels) |->
            LET i == CHOOSE j \in 1..5 : component_labels[j] = label
            IN  [score |-> Score(candidate, score_keys[i]),
                 weight |-> weights[weight_keys[i]],
                 contribution |-> Rat(Score(candidate, score_keys[i])
                                        * weights[weight_keys[i]], 1000)]],
     overall_score |-> Score(candidate, "overall_score"),
     strengths |-> _identify_strengths(candidate),
     areas_for_improvement |-> _identify_weaknesses(candidate)]

(***************************************************************************)
(* Single calls of the other scorers and helpers of the engine             *)
(***************************************************************************)
\* the keys of education_levels
degree_names == {education_levels[i][1] : i \in 1..Len(education_levels)}

CandidateEducationTexts ==
    {Str(name) : name \in degree_names}
    \cup {Str("Diploma"), Str("PhD in Physics"), Str("Bachelor"), Str("n/a"),
          Str(""), Str("Not Specified"), None}

RequiredEducationTexts ==
    degree_names \cup {"Master", "Bachelor", "degree", "", "Not specified"}

EducationCalls ==
    {[op |-> "_score_education_match", args |-> <<c, r>>,
      returned |-> FALSE, result |-> RInt(0)] :
        c \in CandidateEducationTexts, r \in RequiredEducationTexts}

\* the longest keyword list of a call
MaxKeywords == 2

KeywordPool == {"aws", "AWS", "python", "sql"}

CandidateTexts ==
    {Str(""), None, Str("aws"), Str("aws and Python"), Str("javascript sql"),
     Str("docker")}

KeywordCalls ==
    {[op |-> "_score_keyword_relevance", args |-> <<text, keywords>>,
      returned |-> FALSE, result |-> RInt(0)] :
        text \in CandidateTexts, keywords \in SeqsUpTo(KeywordPool, MaxKeywords)}

SimilarityTexts == {"python aws", "Python AWS", "the docker", "and the"}

\* the third argument is what the backend does during the call
SimilarityCalls ==
    {[op |-> "calculate_text_similarity", args |-> <<Str(text1), text2, outcome>>,
      returned |-> FALSE, result |-> RInt(0)] :
        text1 \in SimilarityTexts, text2 \in SimilarityTexts,
        outcome \in BackendOutcomes}

\* a score field of a record: absent, or a float in tenths
ScoreField(key, values) ==
    {<<>>} \cup {key :> Float(v) : v \in values}

\* scored records with scores at and next to the thresholds
ScoredRecords ==
    {("filename" :> Str("a.pdf")) @@ f1 @@ f2 @@ f3 @@ f4 @@ f5 @@ f6 :
        f1 \in ScoreField("skills_score", {399, 400, 499, 500, 699, 700, 799, 800}),
        f2 \in ScoreField("experience_score", {499, 500, 800}),
        f3 \in ScoreField("education_score", {499, 800}),
        f4 \in ScoreField("keyword_score", {399, 400, 499, 500, 699, 700, 799, 800}),
        f5 \in ScoreField("similarity_score", {-250, 1000}),
        f6 \in ScoreField("overall_score", {612})}

BreakdownCalls ==
    {[op |-> "get_scoring_breakdown", args |-> <<candidate>>,
      returned |-> FALSE, result |-> RInt(0)] : candidate \in ScoredRecords}

\* data_extractor.py line 301
job_indicators == <<"worked at", "employed at", "position", "role", "job">>

\* data_extractor.py lines 296-307: what _extract_experience_years returns for
\* the years it found (each in 1..49, line 293) and the job indicators it counted
experience_years(years_found, job_count) ==
    IF years_found # {} THEN str(Maximum(years_found))
    ELSE IF job_count > 0 THEN "~" \o str(job_count * 2)
    ELSE "Not Specified"

\* the four year forms of a number
YearForms(n) ==
    {str(n) \o " years", str(n) \o " yrs", str(n), "~" \o str(n)}

\* values without a year form
NoYearTexts ==
    {Str(""), None, List(<<>>), Str("Not Specified"), Str("Not specified"),
     Str("Unknown"), Str("several"), Str("five years"), Str("n/a")}

YearsCalls ==
    {[op |-> "_extract_years_from_text", args |-> <<text>>,
      returned |-> FALSE, result |-> RInt(0)] :
        text \in NoYearTexts
                 \cup {Str(form) : form \in UNION {YearForms(n) : n \in 0..MaxYears}}}

\* texts whose docs are passed to _token_similarity
TokenTexts ==
    {"", "and the", "python aws", "Python AWS", "aws docker", "sql",
     "5 years python", "5 year , python sql"}

TokenSimilarityCalls ==
    {[op |-> "_token_similarity", args |-> <<nlp(text1), nlp(text2)>>,
      returned |-> FALSE, result |-> RInt(0)] :
        text1 \in TokenTexts, text2 \in TokenTexts}

\* job descriptions whose keywords are extracted; the last has 22 distinct
\* words, the final one twice
KeywordTexts ==
    {"", "Python python AWS and go r", "aws python python aws sql",
     "sql docker docker", "5 years of skills , years",
     "w01 w02 w03 w04 w05 w06 w07 w08 w09 w10 w11 w12 w13 w14 w15 w16 w17 w18 w19 w20 w21 w22 w22"}

\* line 80 and 86: doc = self.nlp(job_description.lower()) is what
\* _extract_important_keywords is called on
ImportantKeywordCalls ==
    {[op |-> "_extract_important_keywords", args |-> <<nlp(lower(text))>>,
      returned |-> FALSE, result |-> RInt(0)] : text \in KeywordTexts}

\* n lines "line 01", "line 02", ...
NumberedLines(n) == [k \in 1..n |-> "line " \o (IF k < 10 THEN "0" ELSE "") \o str(k)]

\* a line of n characters
RECURSIVE Padding(_)
Padding(n) == IF n = 0 THEN "" ELSE "x" \o Padding(n - 1)

\* job descriptions as lists of lines: headings followed by 16 lines, by a
\* body of exactly 50 and of 51 characters before a blank line, by an early
\* blank line, by another heading; a heading of 100 characters, no heading
SectionTexts ==
    {<<"Requirements:">> \o NumberedLines(16),
     <<"Requirements:">> \o NumberedLines(9),
     <<"Requirements", "knows sql", "knows sql", "knows sql", "knows sql", "knows sql",
       "", "after one", "after two">>,
     <<"Requirements", "knows sql", "knows sql", "knows sql", "knows sql", "knows java",
       "", "after one", "after two">>,
     <<"intro", "  Must have:", "python", "  ", "aws">>,
     <<"Qualifications", "degree", "Preferred Skills", "docker">>,
     <<"requirements " \o Padding(87), "python">>,
     <<"requirements " \o Padding(86), "python">>,
     <<"about us", "we build things">>,
     <<"">>}

SectionCalls ==
    {[op |-> "_find_requirements_sections", args |-> <<Join("\n", lines)>>,
      returned |-> FALSE, result |-> RInt(0)] : lines \in SectionTexts}

ScorerCalls ==
    EducationCalls \cup KeywordCalls \cup SimilarityCalls \cup BreakdownCalls
        \cup YearsCalls \cup TokenSimilarityCalls \cup ImportantKeywordCalls
        \cup SectionCalls

InitScorers ==
    EngineIdle /\ candidates = <<>> /\ fcall \in ScorerCalls /\ session = NoSession

CallEducationMatch ==
    /\ fcall.op = "_score_education_match"
    /\ Return(_score_education_match(fcall.args[1], fcall.args[2]))

CallKeywordRelevance ==
    /\ fcall.op = "_score_keyword_relevance"
    /\ Return(_score_keyword_relevance(fcall.args[1], fcall.args[2]))

CallTextSimilarity ==
    /\ fcall.op = "calculate_text_similarity"
    /\ Return(calculate_text_similarity(fcall.args[1], fcall.args[2], fcall.args[3]))

CallScoringBreakdown ==
    /\ fcall.op = "get_scoring_breakdown"
    /\ Return(get_scoring_breakdown(fcall.args[1]))

\* a caller of the engine sets its weights between two calls
InstallWeights ==
    \E w \in WeightSets :
        /\ weights # w
        /\ SetWeights(w)
        /\ UNCHANGED foreign_installs

CallExtractYears ==
    /\ fcall.op = "_extract_years_from_text"
    /\ Return(_extract_years_from_text(fcall.args[1]))

CallTokenSimilarity ==
    /\ fcall.op = "_token_similarity"
    /\ Return(_token_similarity(fcall.args[1], fcall.args[2]))

CallImportantKeywords ==
    /\ fcall.op = "_extract_important_keywords"
    /\ Return(_extract_important_keywords(fcall.args[1]))

CallFindSections ==
    /\ fcall.op = "_find_requirements_sections"
    /\ Return(_find_requirements_sections(fcall.args[1]))

NextScorers ==
    \/ InstallWeights
    \/ CallFindSections
    \/ CallImportantKeywords
    \/ CallTokenSimilarity
    \/ CallExtractYears
    \/ CallEducationMatch
    \/ CallKeywordRelevance
    \/ CallTextSimilarity
    \/ CallScoringBreakdown

SpecScorers == InitScorers /\ [][NextScorers]_vars

(***************************************************************************)
(* app.py: one browser session.  Every interaction of the user runs the    *)
(* script from top to bottom with the values of the widgets; the scoring   *)
(* block installs the weights and calls score_candidates, which returns    *)
(* before the run goes on.                                                 *)
(***************************************************************************)
\* the most files one upload batch holds
MaxBatch == 2

slider_keys ==
    <<"skills_match", "experience_match", "education_match", "keyword_relevance",
      "text_similarity", "semantic_similarity">>

\* the positions the user drags each slider to
SliderStops ==
    [skills_match |-> {35, 40}, experience_match |-> {20}, education_match |-> {15},
     keyword_relevance |-> {15}, text_similarity |-> {10},
     semantic_similarity |-> {5, 0}]

\* total_weight, line 94
total_weight(sliders) ==
    sliders.skills_match + sliders.experience_match + sliders.education_match
    + sliders.keyword_relevance + sliders.text_similarity + sliders.semantic_similarity

\* an uploaded file: its name and what extract_resume_data returns for it, a
\* dict or None
UploadedFile(name, extracted_data) == [name |-> name, extracted_data |-> extracted_data]

UploadPool ==
    {UploadedFile("a.pdf", Candidate("a.pdf", <<"Python", "Docker">>, "5",
                                     "PhD in Physics", "aws")),
     UploadedFile("a.pdf", Candidate("a.pdf", <<"js">>, "2", "Diploma", "aws")),
     UploadedFile("c.pdf", Candidate("c.pdf", <<"js">>, "2", "Diploma", "aws")),
     UploadedFile("scan.pdf", None)}

\* the files selected in the uploader, in the order of the loop; two of them
\* can have the same name
Batches ==
    {b \in UNION {[1..m -> UploadPool] : m \in 1..MaxBatch} :
        \A i, j \in 1..Len(b) : b[i] = b[j] => i = j}

NoEvent == [kind |-> "none"]

\* lines 30-47: the session state of a new session; sliders is the state of
\* the six slider widgets, last_event is history
NewSession ==
    [phase |-> "idle", rerun |-> FALSE,
     processed_resumes |-> <<>>, job_description |-> "", scored_candidates |-> <<>>,
     custom_weights |-> session_weights, sliders |-> session_weights,
     last_event |-> NoEvent]

\* the bug of keeping the ranking when the job description changes
JobDescriptionBlockKeeping(s, text) ==
    IF text # s.job_description THEN [s EXCEPT !.job_description = text] ELSE s

\* lines 56-66: text is what the text area returns
JobDescriptionBlock(s, text) ==
    IF text # s.job_description
    THEN [s EXCEPT !.job_description = text, !.scored_candidates = <<>>]
    ELSE s

\* the bug of storing the sliders whatever their total
SliderBlockUnchecked(s) ==
    IF s.sliders # s.custom_weights
    THEN [s EXCEPT !.custom_weights = s.sliders, !.scored_candidates = <<>>]
    ELSE s

\* lines 94-114
SliderBlock(s) ==
    IF total_weight(s.sliders) # 100 THEN s
    ELSE IF s.sliders # s.custom_weights
    THEN [s EXCEPT !.custom_weights = s.sliders, !.scored_candidates = <<>>]
    ELSE s

\* what the assignment to the state of an instantiated slider does (line 130):
\* the framework accepts it, or raises and the run ends there
ResetOutcomes == {"set", "raises"}

\* lines 116-138
ResetBlock(s, outcome) ==
    [s EXCEPT !.custom_weights = session_weights,
              !.scored_candidates = <<>>,
              !.sliders = IF outcome = "set" THEN session_weights ELSE @,
              !.rerun = (outcome = "set")]

\* lines 143-147
ClearAllBlock(s) ==
    [s EXCEPT !.processed_resumes = <<>>, !.scored_candidates = <<>>,
              !.job_description = "", !.rerun = TRUE]

\* line 184: next((r for r in processed_resumes if r['filename'] == name), None)
ExistingResume(resumes, name) ==
    \E k \in 1..Len(resumes) : resumes[k].filename = Str(name)

RECURSIVE ProcessFilesUnchecked(_, _, _)
\* the bug of appending without looking for the filename
ProcessFilesUnchecked(resumes, batch, processed_count) ==
    IF batch = <<>> THEN <<resumes, processed_count>>
    ELSE IF Head(batch).extracted_data # None
         THEN ProcessFilesUnchecked(Append(resumes, Head(batch).extracted_data),
                                    Tail(batch), processed_count + 1)
         ELSE ProcessFilesUnchecked(resumes, Tail(batch), processed_count)

RECURSIVE ProcessFiles(_, _, _)
\* lines 170-196, the loop over uploaded_files: <<processed_resumes, processed_count>>
ProcessFiles(resumes, batch, processed_count) ==
    IF batch = <<>> THEN <<resumes, processed_count>>
    ELSE LET uploaded_file == Head(batch)
             extracted_data == uploaded_file.extracted_data
         IN  IF extracted_data # None /\ ~ExistingResume(resumes, uploaded_file.name)
             THEN ProcessFiles(Append(resumes, extracted_data), Tail(batch),
                               processed_count + 1)
             ELSE ProcessFiles(resumes, Tail(batch), processed_count)

\* lines 162-203
UploadBlock(s, batch) ==
    LET done == ProcessFiles(s.processed_resumes, batch, 0)
    IN  [s EXCEPT !.processed_resumes = done[1],
                  !.scored_candidates = IF done[2] > 0 THEN <<>> ELSE @]

\* line 209: the "Score Resumes" button is drawn when there is a ranking
ScoreButtonDrawn(s) ==
    s.processed_resumes # <<>> /\ s.job_description # "" /\ s.scored_candidates # <<>>

\* lines 208-209: the scoring block calls the engine
NeedsScoring(s, button) ==
    /\ s.processed_resumes # <<>> /\ s.job_description # ""
    /\ s.scored_candidates = <<>> \/ button

\* what the user does to start a run; after st.rerun() the script runs again
\* without the user
Events(s) ==
    IF s.rerun THEN {[kind |-> "plain"]}
    ELSE {[kind |-> "plain"], [kind |-> "clear"]}
         \cup {[kind |-> "edit", text |-> t] : t \in JobDescriptions \ {s.job_description}}
         \cup UNION {{[kind |-> "slider", key |-> slider_keys[k], value |-> v] :
                        v \in SliderStops[slider_keys[k]] \ {s.sliders[slider_keys[k]]}} :
                     k \in 1..6}
         \cup {[kind |-> "reset", outcome |-> o] : o \in ResetOutcomes}
         \cup {[kind |-> "upload", batch |-> b] : b \in Batches}
         \cup (IF ScoreButtonDrawn(s) THEN {[kind |-> "score"]} ELSE {})

\* what the history keeps of an event: of a batch, the files that
\* extract_resume_data reads
Shown(event) ==
    IF event.kind = "upload"
    THEN [kind |-> "upload",
          batch |-> SelectSeq(event.batch, LAMBDA f : f.extracted_data # None)]
    ELSE event

\* one run of the script up to the scoring block: the session state it leaves
\* and whether the scoring block calls the engine
Script(s, event) ==
    LET s0 == [s EXCEPT !.rerun = FALSE, !.last_event = Shown(event)]
        s1 == JobDescriptionBlock(s0, IF event.kind = "edit" THEN event.text
                                      ELSE s0.job_description)
        s2 == SliderBlock(IF event.kind = "slider"
                          THEN [s1 EXCEPT !.sliders[event.key] = event.value]
                          ELSE s1)
    IN  IF event.kind = "reset"
        THEN [state |-> ResetBlock(s2, event.outcome), scores |-> FALSE]
        ELSE IF event.kind = "clear"
        THEN [state |-> ClearAllBlock(s2), scores |-> FALSE]
        ELSE LET s3 == IF event.kind = "upload" THEN UploadBlock(s2, event.batch) ELSE s2
             IN  [state |-> s3, scores |-> NeedsScoring(s3, event.kind = "score")]

\* scoring_engine.py lines 89-95: the weighted sum, term by term
OverallScore(cs, w) ==
    LET sum1 == RAdd(RInt(0), WeightedTerm(cs[1], w[weight_keys[1]]))
        sum2 == RAdd(sum1, WeightedTerm(cs[2], w[weight_keys[2]]))
        sum3 == RAdd(sum2, WeightedTerm(cs[3], w[weight_keys[3]]))
        sum4 == RAdd(sum3, WeightedTerm(cs[4], w[weight_keys[4]]))
    IN  RAdd(sum4, WeightedTerm(cs[5], w[weight_keys[5]]))

\* scoring_engine.py lines 62-86: the five component scores of a candidate
AllComponents(candidate, analysis, text, outcome) ==
    Append(FirstComponents(candidate, analysis),
           _score_text_similarity(get(candidate, "raw_text", Str("")), text, outcome))

\* scoring_engine.py lines 36-41 for one candidate: <<>> when a scorer raises,
\* else the scored copy
ScoredCopy(candidate, analysis, text, w, outcome) ==
    LET cs == AllComponents(candidate, analysis, text, outcome)
    IN  IF \E i \in 1..5 : IsRaised(cs[i]) THEN <<>>
        ELSE <<MergeScores(candidate, ScoreDict(cs, OverallScore(cs, w))).scored>>

\* the records extract_resume_data returns for the files of the pool
UploadedRecords == {f.extracted_data : f \in {g \in UploadPool : g.extracted_data # None}}

\* the positions of the six sliders together
SliderPositions ==
    [skills_match : SliderStops.skills_match,
     experience_match : SliderStops.experience_match,
     education_match : SliderStops.education_match,
     keyword_relevance : SliderStops.keyword_relevance,
     text_similarity : SliderStops.text_similarity,
     semantic_similarity : SliderStops.semantic_similarity]

\* the arguments ScoredCopy gets in a session
ScoringKeys ==
    UNION {{<<candidate, text, analysis, w, outcome>> :
               candidate \in UploadedRecords, analysis \in job_analyses[text],
               w \in SliderPositions,
               outcome \in BackendOutcomes \cup {[raises |-> FALSE, value |-> 0]}} :
           text \in JobDescriptions}

\* ScoredCopy on these arguments, evaluated once
scored_copies ==
    [key \in ScoringKeys |-> ScoredCopy(key[1], key[3], key[2], key[4], key[5])]

\* the answers of the backend a pass over list can get: per candidate one
\* outcome, the same for the same arguments, and the one seen before if any
BackendAnswers(list, text, seen) ==
    {answers \in [1..Len(list) -> BackendOutcomes] :
        \A k \in 1..Len(list) :
            LET raw_text == get(list[k], "raw_text", Str(""))
            IN  /\ ~SimilarityEvaluated(raw_text, text)
                      => answers[k] = [raises |-> FALSE, value |-> 0]
                /\ SimilarityEvaluated(raw_text, text)
                      => /\ \A e \in seen : e.key = SimilarityKey(raw_text, text)
                                               => answers[k] = e.outcome
                         /\ \A j \in 1..Len(list) :
                               get(list[j], "raw_text", Str("")) = raw_text
                                  => answers[j] = answers[k]}

\* a scorer raises during the pass: score_candidates has no try block
ScoringRaises(list, analysis, text, w, answers) ==
    \E k \in 1..Len(list) : scored_copies[<<list[k], text, analysis, w, answers[k]>>] = <<>>

\* scoring_engine.py lines 32-48: what score_candidates returns when no scorer
\* raises
score_candidates(list, analysis, text, w, answers) ==
    sort([k \in 1..Len(list) |->
             scored_copies[<<list[k], text, analysis, w, answers[k]>>][1]])

\* the evaluations of the backend a pass adds to those seen
SeenAfter(list, text, answers, seen) ==
    seen \cup {[key |-> SimilarityKey(get(list[k], "raw_text", Str("")), text),
                outcome |-> answers[k]] :
                 k \in {j \in 1..Len(list) :
                          SimilarityEvaluated(get(list[j], "raw_text", Str("")), text)}}

InitSession ==
    /\ EngineIdle
    /\ candidates = <<>>
    /\ fcall = NoCall
    /\ session = NewSession

\* one run of the script; lines 208-218 are the scoring block
RunScript ==
    /\ session.phase = "idle"
    /\ \E event \in Events(session) :
          LET run == Script(session, event)
              s == run.state
          IN  IF run.scores
              THEN \E analysis \in Analyses(s.job_description),
                      answers \in BackendAnswers(s.processed_resumes, s.job_description,
                                                 similarity_seen) :
                      LET raises == ScoringRaises(s.processed_resumes, analysis,
                                                  s.job_description, s.custom_weights,
                                                  answers)
                          scored == score_candidates(s.processed_resumes, analysis,
                                                     s.job_description, s.custom_weights,
                                                     answers)
                      IN  /\ weights' = s.custom_weights
                          /\ similarity_seen' = SeenAfter(s.processed_resumes,
                                                          s.job_description, answers,
                                                          similarity_seen)
                          /\ session' = IF raises THEN s
                                        ELSE [s EXCEPT !.scored_candidates = scored]
              ELSE /\ session' = s
                   /\ UNCHANGED <<weights, similarity_seen>>
    /\ UNCHANGED <<candidates, job_description, pc, job_analysis, idx, components,
                   term, overall_score, scored_candidates, calls, input_at_call,
                   weights_at_call, weights_read, appended, previous,
                   foreign_installs, fcall>>

NextSession == RunScript

SpecSession == InitSession /\ [][NextSession]_vars

(***************************************************************************)
(* Properties                                                              *)
(***************************************************************************)
all_score_keys == Range(score_keys) \cup {"overall_score"}

Bijections(n) ==
    {f \in [1..n -> 1..n] : \A i, j \in 1..n : f[i] = f[j] => i = j}

Overall(record) == record.overall_score.v

SumOver(f, n) == LET RECURSIVE S(_)
                     S(k) == IF k = 0 THEN RInt(0) ELSE RAdd(S(k - 1), f[k])
                 IN  S(n)

\* C1: score_candidates returns the records in the order of a stable
\* descending sort by overall_score: adjacent records do not increase, and
\* records with equal overall_score keep the relative order of the input list
C1_SortedStable ==
    pc = "done" =>
        LET n == Len(scored_candidates)
        IN  /\ n = Len(input_at_call)
            /\ \A k \in 1..(n - 1) :
                  Overall(scored_candidates[k]) >= Overall(scored_candidates[k + 1])
            /\ \E f \in Bijections(n) :
                  /\ \A k \in 1..n :
                        scored_candidates[k].filename = input_at_call[f[k]].filename
                  /\ \A k, l \in 1..n :
                        k < l /\ Overall(scored_candidates[k]) = Overall(scored_candidates[l])
                        => f[k] < f[l]

\* a call returned two different records with equal overall_score
C1_Witness ==
    /\ pc = "done"
    /\ Len(scored_candidates) >= 2
    /\ Overall(scored_candidates[1]) = Overall(scored_candidates[2])
    /\ scored_candidates[1].filename # scored_candidates[2].filename

\* the weighted sum of the component scores a record carries, under weight set w
WeightedSumOfReturned(record, w) ==
    SumOver([i \in 1..5 |-> RMul(Tenths(record[score_keys[i]].v),
                                 Rat(w[weight_keys[i]], 100))], 5)

\* C2: the overall_score of every returned record equals the weighted sum of
\* the five component scores that record carries, under the weights of the
\* call, rounded to one decimal place
C2_OverallIsSumOfReturned ==
    pc = "done" =>
        \A k \in 1..Len(scored_candidates) :
            Overall(scored_candidates[k]) =
                round1(WeightedSumOfReturned(scored_candidates[k], weights_at_call))

\* C3: each of the five component scores of a returned record lies in
\* [0,100], whatever the similarity backend returns
C3_ComponentsInRange ==
    \A k \in 1..Len(scored_candidates) : \A i \in 1..5 :
        /\ scored_candidates[k][score_keys[i]].v >= 0
        /\ scored_candidates[k][score_keys[i]].v <= 1000

WeightsAreFractions(w) == \A i \in 1..5 : w[weight_keys[i]] \in 0..100

\* C4 as stated: with every weight a fraction in [0,1], overall_score lies in
\* [0,100]
C4_OverallInRange ==
    WeightsAreFractions(weights_at_call) =>
        \A k \in 1..Len(scored_candidates) :
            Overall(scored_candidates[k]) >= 0 /\ Overall(scored_candidates[k]) <= 1000

SumOfWeights(w) ==
    w.skills_match + w.experience_match + w.education_match + w.keyword_relevance
    + w.text_similarity

\* C4 amended: with every weight a fraction in [0,1], overall_score lies
\* between -100 times the text_similarity weight and 100 times the sum of the
\* five weights, up to the 0.05 of its rounding to one decimal place
\* (overall_score in tenths, the weights in hundredths, compared in twentieths)
C4_OverallWithinWeightBounds ==
    WeightsAreFractions(weights_at_call) =>
        \A k \in 1..Len(scored_candidates) :
            /\ 2 * Overall(scored_candidates[k])
                  >= -(20 * weights_at_call.text_similarity) - 1
            /\ 2 * Overall(scored_candidates[k])
                  <= 20 * SumOfWeights(weights_at_call) + 1

\* a call under weights that are fractions but sum to more than 1 returned an
\* overall_score above 100
C4_Witness ==
    /\ pc = "done"
    /\ WeightsAreFractions(weights_at_call)
    /\ SumOfWeights(weights_at_call) > 100
    /\ \E k \in 1..Len(scored_candidates) : Overall(scored_candidates[k]) > 1000

\* C5: on a record whose skills, experience_years, education and raw_text are
\* each absent, empty, a sentinel or unparseable, score_candidates does not
\* raise and returns a record with all six score fields
C5_NeverRaises ==
    /\ pc # "raised"
    /\ pc = "done" =>
          /\ Len(scored_candidates) = Len(input_at_call)
          /\ \A k \in 1..Len(scored_candidates) :
                all_score_keys \subseteq DOMAIN scored_candidates[k]

\* a call returned for a record that has none of the four fields
C5_Witness ==
    /\ pc = "done"
    /\ Len(scored_candidates) = 1
    /\ DOMAIN input_at_call[1] = {"filename"}
    /\ job_description # ""

\* C6: score_candidates leaves the input list and its records as they were,
\* and returns one record per input record with that record's other fields
\* unchanged plus the six score fields
C6_InputUnchanged ==
    /\ calls > 0 => candidates = input_at_call
    /\ pc = "done" =>
          LET n == Len(scored_candidates)
          IN  /\ n = Len(input_at_call)
              /\ \E f \in Bijections(n) : \A k \in 1..n :
                    /\ DOMAIN scored_candidates[k] =
                          DOMAIN input_at_call[f[k]] \cup all_score_keys
                    /\ \A key \in DOMAIN input_at_call[f[k]] \ all_score_keys :
                          scored_candidates[k][key] = input_at_call[f[k]][key]

\* a call returned two records in another order than the input's
C6_Witness ==
    /\ pc = "done"
    /\ Len(scored_candidates) = 2
    /\ scored_candidates[1].filename = input_at_call[2].filename
    /\ scored_candidates[1].filename # input_at_call[1].filename

SameCallAsPrevious ==
    /\ previous.completed
    /\ previous.job_description = job_description
    /\ previous.weights = weights_at_call
    /\ input_at_call \in {previous.input, previous.output}

\* C7: a second call with the same candidates (as passed before, or as
\* returned with their score fields), job description and weights returns the
\* same list
C7_Idempotent ==
    pc = "done" /\ SameCallAsPrevious => scored_candidates = previous.output

\* the second call was given the scored and reordered list of the first
C7_Witness ==
    /\ pc = "done"
    /\ SameCallAsPrevious
    /\ input_at_call = previous.output
    /\ Len(previous.output) >= 2
    /\ previous.output[1].filename # previous.input[1].filename

\* C8: every overall_score of a call is computed from the weight set that was
\* active when the call started
C8_SingleWeightSet ==
    \A j \in 1..Len(weights_read) : \A t \in 1..Len(weights_read[j]) :
        weights_read[j][t] = weights_at_call[weight_keys[t]]

\* the positions of the required skills with an exact match
ExactMatches(candidate_skills, required_skills) ==
    {i \in 1..Len(required_skills) :
        \E j \in 1..Len(candidate_skills) :
            lower(required_skills[i]) = lower(candidate_skills[j])}

\* the positions of the other required skills that have a partial match
PartialMatches(candidate_skills, required_skills) ==
    {i \in 1..Len(required_skills) \ ExactMatches(candidate_skills, required_skills) :
        HasPartialMatch(lower(required_skills[i]), LowerAll(candidate_skills))}

\* C9: the skills score is 0 for an empty list, else
\* 100 * min(1, (E + 0.7 P) / |required_skills|); [Python, AWS] against
\* [python, Docker] scores 50
C9_SkillsFormula ==
    fcall.op = "_score_skills_match" /\ fcall.returned =>
        LET cs == fcall.args[1].v
            rs == fcall.args[2]
            E == Cardinality(ExactMatches(cs, rs))
            P == Cardinality(PartialMatches(cs, rs))
        IN  /\ fcall.result =
                  IF cs = <<>> \/ rs = <<>> THEN RInt(0)
                  ELSE RMul(RInt(100), RMin(RInt(1), Rat(10 * E + 7 * P, 10 * Len(rs))))
            /\ cs = <<"python", "Docker">> /\ rs = <<"Python", "AWS">>
                  => fcall.result = RInt(50)

\* a call returned with one exact and one partial match
C9_Witness ==
    /\ fcall.op = "_score_skills_match" /\ fcall.returned
    /\ Cardinality(ExactMatches(fcall.args[1].v, fcall.args[2])) = 1
    /\ Cardinality(PartialMatches(fcall.args[1].v, fcall.args[2])) = 1
    /\ fcall.result = RInt(85)

\* C10: for parsed years c and r in 0..49 the experience score is 75 if
\* r = 0; else 30 if c = 0; else, if c >= r, 100 when c/r <= 1.5 and
\* max(85, 100 - (c/r - 1.5) * 10) otherwise; else (c/r) * 80
C10_ExperienceFormula ==
    fcall.op = "_score_experience_match" /\ fcall.returned =>
        LET c == _extract_years_from_text(fcall.args[1])
            r == _extract_years_from_text(fcall.args[2])
        IN  /\ c \in 0..49 /\ r \in 0..49
            /\ fcall.result =
                  IF r = 0 THEN RInt(75)
                  ELSE IF c = 0 THEN RInt(30)
                  ELSE IF c >= r
                  THEN IF 2 * c <= 3 * r THEN RInt(100)
                       ELSE RMax(RInt(85), Rat(115 * r - 10 * c, r))
                  ELSE Rat(80 * c, r)

\* a call returned for an overqualified candidate above the floor of 85
C10_Witness ==
    /\ fcall.op = "_score_experience_match" /\ fcall.returned
    /\ _extract_years_from_text(fcall.args[1]) = 5
    /\ _extract_years_from_text(fcall.args[2]) = 3
    /\ fcall.result = Rat(295, 3)

\* the level the hierarchy states for a degree name
StatedLevel(name) ==
    education_levels[CHOOSE i \in 1..Len(education_levels) :
                        education_levels[i][1] = lower(name)][2]

GapScore(candidate_level, required_level) ==
    IF candidate_level >= required_level THEN 100
    ELSE IF candidate_level = required_level - 1 THEN 75
    ELSE IF candidate_level = required_level - 2 THEN 50
    ELSE 25

\* C11: for every pair of single degree names of the hierarchy used as
\* candidate and requirement text, the education score follows the gap of
\* their stated levels (100, 75, 50, 25); "Diploma" against "Master" scores 25
\* and "PhD in Physics" against "Bachelor" scores 100
C11_ScoreFollowsGap ==
    fcall.op = "_score_education_match" /\ fcall.returned =>
        LET c == fcall.args[1]
            r == fcall.args[2]
        IN  /\ c.t = "str" /\ lower(c.v) \in degree_names /\ lower(r) \in degree_names
                  => fcall.result = RInt(GapScore(StatedLevel(c.v), StatedLevel(r)))
            /\ c = Str("PhD in Physics") /\ r = "Bachelor" => fcall.result = RInt(100)

\* no key of the hierarchy occurs in the text
NamesNoLevel(text) ==
    \A i \in 1..Len(education_levels) : ~Contains(education_levels[i][1], lower(text))

\* C20: the education fallbacks in their precedence: requirement text empty
\* or "Not specified" gives 75; otherwise candidate text empty or
\* "Not Specified" gives 40; otherwise a requirement of level 0 gives 70;
\* otherwise a candidate of level 0 gives 50
C20_FallbackPrecedence ==
    fcall.op = "_score_education_match" /\ fcall.returned =>
        LET c == fcall.args[1]
            r == fcall.args[2]
        IN  IF r \in {"", "Not specified"} THEN fcall.result = RInt(75)
            ELSE IF ~Truthy(c) \/ c = Str("Not Specified") THEN fcall.result = RInt(40)
            ELSE IF NamesNoLevel(r) THEN fcall.result = RInt(70)
            ELSE IF NamesNoLevel(c.v) THEN fcall.result = RInt(50)
            ELSE fcall.result \in {RInt(100), RInt(75), RInt(50), RInt(25)}

\* a call returned with both texts a sentinel
C20_Witness ==
    /\ fcall.op = "_score_education_match" /\ fcall.returned
    /\ fcall.args = <<Str("Not Specified"), "Not specified">>
    /\ fcall.result = RInt(75)

\* some substring of the text is the keyword, letter case set aside
OccursIgnoringCase(keyword, text) ==
    \E a \in 1..(Len(text) + 1) : \E b \in (a - 1)..Len(text) :
        lower(SubSeq(text, a, b)) = lower(keyword)

\* C12: the keyword relevance score is 50 when the keyword list is empty or
\* the candidate text is empty, and otherwise 100 times the number of keywords
\* that occur as case-insensitive substrings of the text over the number of
\* keywords
C12_KeywordFormula ==
    fcall.op = "_score_keyword_relevance" /\ fcall.returned =>
        LET text == fcall.args[1]
            keywords == fcall.args[2]
        IN  IF keywords = <<>> \/ text \in {Str(""), None}
            THEN fcall.result = RInt(50)
            ELSE LET found == {i \in 1..Len(keywords) :
                                  OccursIgnoringCase(keywords[i], text.v)}
                 IN  fcall.result = Rat(100 * Cardinality(found), Len(keywords))

\* both keywords occur, in another letter case
C12_Witness ==
    /\ fcall.op = "_score_keyword_relevance" /\ fcall.returned
    /\ fcall.args = <<Str("aws and Python"), <<"AWS", "python">>>>
    /\ fcall.result = RInt(100)

\* the backend raised when the similarity of this record's text and the job
\* description of the call was computed
SimilarityRaisedFor(record) ==
    LET raw_text == get(record, "raw_text", Str(""))
    IN  /\ SimilarityEvaluated(raw_text, job_description)
        /\ \E e \in similarity_seen :
              e.key = SimilarityKey(raw_text, job_description) /\ e.outcome.raises

\* C13: calculate_text_similarity never propagates an error: when a step of
\* the similarity computation raises, the scoring pass does not raise and the
\* candidate's similarity_score is 0
C13_SimilarityErrorsSwallowed ==
    /\ pc # "raised"
    /\ \A k \in 1..Len(scored_candidates) :
          SimilarityRaisedFor(scored_candidates[k]) =>
              scored_candidates[k].similarity_score = Float(0)

\* a call returned although the backend raised for one of its candidates
C13_Witness ==
    /\ pc = "done"
    /\ \E k \in 1..Len(scored_candidates) :
          /\ SimilarityRaisedFor(scored_candidates[k])
          /\ scored_candidates[k].similarity_score = Float(0)
          /\ scored_candidates[k].keyword_score # Float(0)

\* C14: when the primary vector similarity raises (or the backend has no
\* vectors), calculate_text_similarity returns the Jaccard similarity of the
\* two texts' lemmatized non-stopword, non-punctuation token sets; identical
\* texts with a non-empty token set give 1.0
C14_FallbackIsJaccard ==
    /\ fcall.op = "calculate_text_similarity" /\ fcall.returned
    /\ fcall.args[3].raises
    => fcall.result = _token_similarity(nlp(lower(fcall.args[1].v)),
                                        nlp(lower(fcall.args[2])))

\* C15: in each score_candidates call the job description is analyzed once,
\* before any candidate is scored; that analysis is used unchanged for every
\* candidate of the call, and a later call analyzes its own job description
\* afresh
C15_AnalyzedOncePerCall ==
    [][/\ calls' = calls + 1 =>
            /\ job_analysis' \in job_analyses[job_description']
            /\ scored_candidates' = <<>> /\ idx' = 1
       /\ calls' = calls => job_analysis' = job_analysis
       /\ pc = "score" /\ pc' = "weigh" =>
            \A i \in 1..4 :
                components'[i] = FirstComponents(candidates[idx], job_analysis')[i]]_vars

\* a second call returned two records for another job description than the
\* call before it
C15_Witness ==
    /\ calls = 2 /\ pc = "done"
    /\ previous.completed
    /\ previous.job_description # job_description
    /\ job_analysis \notin job_analyses[previous.job_description]
    /\ Len(scored_candidates) = 2

\* C16: for an empty job description the analysis has no required skills,
\* experience and education requirements "Not specified" and no keywords,
\* every candidate gets the component scores skills 0, experience 75,
\* education 75, keyword 50, similarity 0, and the output order is the input
\* order
C16_EmptyJobDescription ==
    calls > 0 /\ job_description = "" =>
        /\ job_analysis.required_skills = <<>>
        /\ job_analysis.experience_requirements = "Not specified"
        /\ job_analysis.education_requirements = "Not specified"
        /\ job_analysis.important_keywords = <<>>
        /\ \A k \in 1..Len(scored_candidates) :
              /\ scored_candidates[k].skills_score = Float(0)
              /\ scored_candidates[k].experience_score = Float(750)
              /\ scored_candidates[k].education_score = Float(750)
              /\ scored_candidates[k].keyword_score = Float(500)
              /\ scored_candidates[k].similarity_score = Float(0)
        /\ pc = "done" =>
              /\ Len(scored_candidates) = Len(input_at_call)
              /\ \A k \in 1..Len(scored_candidates) :
                    scored_candidates[k].filename = input_at_call[k].filename

\* a call with an empty job description returned the weaker record first, as
\* it was passed
C16_Witness ==
    /\ pc = "done" /\ job_description = ""
    /\ Len(scored_candidates) = 2
    /\ scored_candidates[1].filename = Str("c.pdf")
    /\ scored_candidates[2].filename = Str("a.pdf")
    /\ scored_candidates[1].skills # scored_candidates[2].skills

\* the thresholds of the claim, in tenths, for skills, experience, education
\* and keywords
StrengthFrom == <<800, 800, 800, 700>>
WeaknessBelow == <<500, 500, 500, 400>>

\* the score field of the record passed, a missing field counting as 0
ScoreOrZero(record, i) ==
    IF score_keys[i] \in DOMAIN record THEN record[score_keys[i]].v ELSE 0

\* the list holds exactly the messages of the components selected, in order
ListsExactly(list, messages, selected) ==
    /\ \A i \in 1..4 : (\E k \in 1..Len(list) : list[k] = messages[i]) <=> selected[i]
    /\ Len(list) = Cardinality({i \in 1..4 : selected[i]})
    /\ \A k, m \in 1..Len(list) :
          k < m => \E i, j \in 1..4 : i < j /\ list[k] = messages[i] /\ list[m] = messages[j]

\* C17: get_scoring_breakdown reports for each of the five components
\* contribution = score x the engine's current weight, lists a strength
\* exactly when the score is >= 80 (skills, experience, education) or >= 70
\* (keywords) and a weakness exactly when it is < 50 or < 40; a missing score
\* field counts as 0
C17_Breakdown ==
    [][fcall.op = "get_scoring_breakdown" /\ ~fcall.returned /\ fcall'.returned =>
          LET record == fcall.args[1]
              result == fcall'.result
          IN  /\ \A i \in 1..5 :
                    LET entry == result.component_scores[component_labels[i]]
                    IN  /\ entry.score = ScoreOrZero(record, i)
                        /\ entry.weight = weights[weight_keys[i]]
                        /\ 1000 * entry.contribution[1] =
                               ScoreOrZero(record, i) * weights[weight_keys[i]]
                                 * entry.contribution[2]
              /\ ListsExactly(result.strengths, strength_messages,
                              [i \in 1..4 |-> ScoreOrZero(record, i) >= StrengthFrom[i]])
              /\ ListsExactly(result.areas_for_improvement, weakness_messages,
                              [i \in 1..4 |-> ScoreOrZero(record, i) < WeaknessBelow[i]])]_vars

\* a breakdown returned under weights installed after construction for a
\* record with a score on a threshold and a missing score
C17_Witness ==
    /\ fcall.op = "get_scoring_breakdown" /\ fcall.returned
    /\ weights = session_weights
    /\ fcall.result.component_scores["Skills Match"].weight = 35
    /\ "experience_score" \notin DOMAIN fcall.args[1]
    /\ {"skills_score", "education_score", "keyword_score"} \subseteq DOMAIN fcall.args[1]
    /\ fcall.args[1].skills_score = Float(800)
    /\ fcall.args[1].education_score = Float(499)
    /\ fcall.args[1].keyword_score = Float(700)
    /\ fcall.result.strengths = <<strength_messages[1], strength_messages[4]>>
    /\ fcall.result.areas_for_improvement = <<weakness_messages[2], weakness_messages[3]>>

\* a is a main skill of the variant table and b one of its listed variants
MainAndVariant(a, b) ==
    \E m \in 1..Len(variants) :
        variants[m][1] = a /\ \E v \in 1..Len(variants[m][2]) : variants[m][2][v] = b

\* a and b are both listed as variants of one main skill
VariantsOfOneMain(a, b) ==
    \E m \in 1..Len(variants) : \E v, w \in 1..Len(variants[m][2]) :
        variants[m][2][v] = a /\ variants[m][2][w] = b

\* C18 as stated: one string contains the other, or the two are a main skill
\* and one of its variants
RelatedAsStated(required_skill, candidate_skill) ==
    \/ Contains(required_skill, candidate_skill)
    \/ Contains(candidate_skill, required_skill)
    \/ MainAndVariant(required_skill, candidate_skill)
    \/ MainAndVariant(candidate_skill, required_skill)

RelatedOrSiblings(required_skill, candidate_skill) ==
    \/ RelatedAsStated(required_skill, candidate_skill)
    \/ VariantsOfOneMain(required_skill, candidate_skill)

\* the required skills without exact match related to some candidate skill,
\* by the first relation when siblings is FALSE, by the second when TRUE
RelatedPositions(candidate_skills, required_skills, siblings) ==
    {i \in 1..Len(required_skills) \ ExactMatches(candidate_skills, required_skills) :
        \E j \in 1..Len(candidate_skills) :
            IF siblings
            THEN RelatedOrSiblings(lower(required_skills[i]), lower(candidate_skills[j]))
            ELSE RelatedAsStated(lower(required_skills[i]), lower(candidate_skills[j]))}

\* the skills score when the required skills at the positions P count 0.7
ScoreWithPartials(candidate_skills, required_skills, P) ==
    RMul(RInt(100),
         RMin(RInt(1),
              Rat(10 * Cardinality(ExactMatches(candidate_skills, required_skills))
                    + 7 * Cardinality(P), 10 * Len(required_skills))))

\* C18 as stated: a required skill without exact match counts as a partial
\* match (0.7) exactly when, for some candidate skill, one string contains the
\* other or the two are a main skill and one of its listed variants; at most
\* one partial match per required skill
C18_PartialAsStated ==
    /\ fcall.op = "_score_skills_match" /\ fcall.returned
    /\ fcall.args[1].v # <<>> /\ fcall.args[2] # <<>>
    => fcall.result =
          ScoreWithPartials(fcall.args[1].v, fcall.args[2],
                            RelatedPositions(fcall.args[1].v, fcall.args[2], FALSE))

\* C18, amended: ... exactly when, for some candidate skill, one string
\* contains the other, or the two are a main skill and one of its listed
\* variants, or both are listed variants of the same main skill; at most one
\* partial match per required skill; [JavaScript] against [js] scores 70
C18_PartialRule ==
    /\ fcall.op = "_score_skills_match" /\ fcall.returned
    /\ fcall.args[1].v # <<>> /\ fcall.args[2] # <<>>
    => /\ fcall.result =
             ScoreWithPartials(fcall.args[1].v, fcall.args[2],
                               RelatedPositions(fcall.args[1].v, fcall.args[2], TRUE))
       /\ fcall.args[1].v = <<"js">> /\ fcall.args[2] = <<"JavaScript">>
             => fcall.result = RInt(70)

\* two required skills, each related to both candidate skills, one of them
\* only as a variant of the same main skill: each counts once
C18_Witness ==
    /\ fcall.op = "_score_skills_match" /\ fcall.returned
    /\ fcall.args[2] = <<"JavaScript", "js">>
    /\ fcall.args[1].v = <<"ecmascript", "java">>
    /\ fcall.result = RInt(70)

\* C19: the year extractor returns N for "N years", "N yrs", a bare "N" and
\* "~N" when 0 < N < 50, and 0 for every other input: an empty value, the
\* sentinels, text without a year form, and years outside (0,50)
C19_YearExtractor ==
    fcall.op = "_extract_years_from_text" /\ fcall.returned =>
        LET text == fcall.args[1]
        IN  /\ \A n \in 0..MaxYears :
                  text.t = "str" /\ text.v \in YearForms(n) =>
                      fcall.result = IF 0 < n /\ n < 50 THEN n ELSE 0
            /\ text \in NoYearTexts => fcall.result = 0

\* the largest number of years the extractor accepts, written with its unit
C19_Witness ==
    /\ fcall.op = "_extract_years_from_text" /\ fcall.returned
    /\ fcall.args[1] = Str("49 yrs")
    /\ fcall.result = 49

\* the token set of a doc: the lower-cased lemmas of its tokens that are
\* neither stop words nor punctuation
TokenSet(doc) ==
    {lower(lemma_(doc[i])) : i \in {j \in 1..Len(doc) : ~is_stop(doc[j]) /\ ~is_punct(doc[j])}}

\* C21: the fallback token similarity of token sets A and B is
\* |A \cap B| / |A \cup B| when both are non-empty and 0 when either is
\* empty: 0 for disjoint sets, 1 for identical non-empty sets, symmetric in
\* its arguments and within [0,1]
C21_Jaccard ==
    fcall.op = "_token_similarity" /\ fcall.returned =>
        LET A == TokenSet(fcall.args[1])
            B == TokenSet(fcall.args[2])
        IN  /\ fcall.result = IF A = {} \/ B = {} THEN RInt(0)
                               ELSE Rat(Cardinality(A \cap B), Cardinality(A \cup B))
            /\ A \cap B = {} => fcall.result = RInt(0)
            /\ A = B /\ A # {} => fcall.result = RInt(1)
            /\ fcall.result = _token_similarity(fcall.args[2], fcall.args[1])
            /\ RLe(RInt(0), fcall.result) /\ RLe(fcall.result, RInt(1))

\* two docs of different sizes that share one of three lemmas
C21_Witness ==
    /\ fcall.op = "_token_similarity" /\ fcall.returned
    /\ fcall.args = <<nlp("sql"), nlp("5 year , python sql")>>
    /\ fcall.result = Rat(1, 4)

\* list is the first 20 (or all) distinct lower-cased lemmas of the tokens of
\* doc that are neither stop words nor punctuation and longer than shortest
\* characters, by descending frequency, equal frequencies by first occurrence
RankedLemmas(list, doc, shortest) ==
    LET P == {i \in 1..Len(doc) :
                ~is_stop(doc[i]) /\ ~is_punct(doc[i]) /\ Len(doc[i]) > shortest}
        L == {lower(lemma_(doc[i])) : i \in P}
        Occurrences(x) == {i \in P : lower(lemma_(doc[i])) = x}
        Before(x, y) ==
            \/ Cardinality(Occurrences(x)) > Cardinality(Occurrences(y))
            \/ /\ Cardinality(Occurrences(x)) = Cardinality(Occurrences(y))
               /\ Minimum(Occurrences(x)) < Minimum(Occurrences(y))
    IN  /\ Len(list) = IF Cardinality(L) < 20 THEN Cardinality(L) ELSE 20
        /\ \A k \in 1..Len(list) : list[k] \in L
        /\ \A k, m \in 1..Len(list) : k < m => Before(list[k], list[m])
        /\ \A x \in L \ {list[k] : k \in 1..Len(list)} :
              \A k \in 1..Len(list) : Before(list[k], x)

\* C22 as stated: important_keywords is exactly the first 20 (or fewer)
\* distinct lemmas of all non-stopword, non-punctuation tokens of the job
\* description, by descending frequency, equal frequencies by first occurrence
C22_AllContentTokens ==
    fcall.op = "_extract_important_keywords" /\ fcall.returned =>
        RankedLemmas(fcall.result, fcall.args[1], 0)

\* C22, amended: ... of all non-stopword, non-punctuation tokens of the job
\* description that are longer than two characters, by descending frequency,
\* equal frequencies by first occurrence
C22_KeywordRanking ==
    fcall.op = "_extract_important_keywords" /\ fcall.returned =>
        RankedLemmas(fcall.result, fcall.args[1], 2)

\* more than 20 distinct words: the one that occurs twice comes first, the
\* last two that occur once are cut
C22_Witness ==
    /\ fcall.op = "_extract_important_keywords" /\ fcall.returned
    /\ Len(fcall.args[1]) = 23
    /\ Len(fcall.result) = 20
    /\ fcall.result[1] = "w22" /\ fcall.result[2] = "w01" /\ fcall.result[20] = "w19"

\* the lines of a text: the pieces between its line breaks
LinesOf(text) ==
    LET breaks == {0} \cup {i \in 1..Len(text) : SubSeq(text, i, i) = "\n"}
                      \cup {Len(text) + 1}
        Following(b) == Minimum({c \in breaks : c > b})
        starts == breaks \ {Len(text) + 1}
        Nth(k) == CHOOSE b \in starts : Cardinality({c \in starts : c < b}) = k - 1
    IN  [k \in 1..Cardinality(starts) |-> SubSeq(text, Nth(k) + 1, Following(Nth(k)) - 1)]

IsBlank(line) == \A i \in 1..Len(line) : IsSpace(SubSeq(line, i, i))

\* a requirements heading: under 100 characters, holding a heading phrase
IsHeading(line) ==
    /\ Len(strip(line)) < 100
    /\ \E h \in 1..Len(requirement_headers) : Contains(requirement_headers[h], lower(line))

\* the non-blank lines among lines[from..to], each with its line break
RECURSIVE NonBlankLines(_, _, _)
NonBlankLines(lines, from, to) ==
    IF from > to THEN ""
    ELSE NonBlankLines(lines, from, to - 1)
         \o (IF IsBlank(lines[to]) THEN "" ELSE lines[to] \o "\n")

\* the body of the heading at line i: the non-blank lines among the span
\* lines that follow it, up to the first blank line reached when atleast
\* characters of body have accumulated
BodyOf(lines, i, span, atleast) ==
    LET last == IF i + span < Len(lines) THEN i + span ELSE Len(lines)
        ends == {j \in (i + 1)..last :
                    IsBlank(lines[j]) /\ Len(NonBlankLines(lines, i + 1, j - 1)) >= atleast}
    IN  NonBlankLines(lines, i + 1, IF ends = {} THEN last ELSE Minimum(ends))

\* sections holds the bodies of the headings of the text, in their order
SectionsAre(sections, text, span, atleast) ==
    LET lines == LinesOf(text)
        headings == {i \in 1..Len(lines) : IsHeading(lines[i])}
    IN  /\ Len(sections) = Cardinality(headings)
        /\ \A i \in headings :
              sections[Cardinality({h \in headings : h <= i})] = BodyOf(lines, i, span, atleast)

\* C23 as stated: the section body of a requirements heading is the non-blank
\* lines among up to 15 lines following the heading, ending early at the first
\* blank line reached once 50 or more characters of body have accumulated
C23_FifteenLinesFiftyChars ==
    fcall.op = "_find_requirements_sections" /\ fcall.returned =>
        SectionsAre(fcall.result, fcall.args[1], 15, 50)

\* C23, amended: ... among up to 14 lines following the heading, ending early
\* at the first blank line reached once more than 50 characters of body have
\* accumulated
C23_SectionBody ==
    fcall.op = "_find_requirements_sections" /\ fcall.returned =>
        SectionsAre(fcall.result, fcall.args[1], 14, 51)

\* a body of 51 characters ended by the blank line after it
C23_Witness ==
    /\ fcall.op = "_find_requirements_sections" /\ fcall.returned
    /\ fcall.result =
          <<"knows sql\nknows sql\nknows sql\nknows sql\nknows java\n">>
    /\ Contains("after one", fcall.args[1])

\* the filenames of the records of a list
StoredNames(resumes) == {resumes[k].filename : k \in 1..Len(resumes)}

\* the names of the files of a batch, those that extract_resume_data reads
ReadableNames(batch) == {Str(batch[k].name) : k \in 1..Len(batch)}

\* C24: whatever the uploads and "Clear All Data" actions of a session,
\* processed_resumes never holds two records with the same filename, also when
\* one batch holds a filename twice; and a run that uploads only filenames
\* already processed leaves the stored records as they are and keeps the
\* ranking that was there
C24_OneRecordPerFilename ==
    [][LET before == session.processed_resumes
           after == session'.processed_resumes
       IN  /\ \A i, j \in 1..Len(after) : after[i].filename = after[j].filename => i = j
           /\ session'.last_event.kind = "upload"
                 => /\ Len(after) >= Len(before)
                    /\ \A k \in 1..Len(before) : after[k] = before[k]
                    /\ ReadableNames(session'.last_event.batch) \subseteq StoredNames(before)
                          => /\ after = before
                             /\ session.scored_candidates # <<>>
                                   => session'.scored_candidates = session.scored_candidates]_vars

\* a.pdf was uploaded again with another content after it was ranked: the
\* first record and the ranking are still there
C24_Witness ==
    /\ session.last_event.kind = "upload"
    /\ session.last_event.batch = <<UploadedFile("a.pdf", Candidate("a.pdf", <<"js">>, "2",
                                                                    "Diploma", "aws"))>>
    /\ Len(session.processed_resumes) = 1
    /\ session.processed_resumes[1].education = Str("PhD in Physics")
    /\ Len(session.scored_candidates) = 1

\* the rankings score_candidates can return for the session as it is
PossibleRankings ==
    {score_candidates(session.processed_resumes, analysis, session.job_description,
                      session.custom_weights, answers) :
        analysis \in Analyses(session.job_description),
        answers \in BackendAnswers(session.processed_resumes, session.job_description,
                                   similarity_seen)}

\* C25: at the end of every script run of a session, a non-empty
\* scored_candidates is a ranking of the current processed_resumes against the
\* current job_description under the current custom_weights
C25_RankingIsCurrent ==
    session.phase = "idle" /\ session.scored_candidates # <<>>
        => session.scored_candidates \in PossibleRankings

\* the job description was edited while a ranking of two resumes was shown,
\* and the run ended with a ranking
C25_Witness ==
    /\ session.last_event = [kind |-> "edit", text |-> "phd required"]
    /\ session.job_description = "phd required"
    /\ Len(session.scored_candidates) = 2
    /\ \E e \in similarity_seen : e.key[2] = "aws 3 yrs experience"

\* C26: in a session the six custom_weights total 100 whatever the sliders
\* and resets did, the five weights installed in the engine total at most 100
\* hundredths, and no overall_score of a ranking of the session exceeds 100
C26_WeightsTotal100 ==
    session.phase = "idle"
        => /\ total_weight(session.custom_weights) = 100
           /\ weights.skills_match + weights.experience_match + weights.education_match
              + weights.keyword_relevance + weights.text_similarity <= 100
           /\ \A k \in 1..Len(session.scored_candidates) :
                 session.scored_candidates[k].overall_score.v <= 1000

\* the sliders total 105 after a combination totalling 100 was stored and used
\* for a ranking
C26_Witness ==
    /\ total_weight(session.sliders) = 105
    /\ session.custom_weights.skills_match = 40
    /\ session.custom_weights.semantic_similarity = 0
    /\ weights = session.custom_weights
    /\ session.scored_candidates # <<>>

\* C27: the year extractor reads every experience string of the producers as
\* the number it was made from: "<N> years" of the job analyzer for N in 1..19
\* gives N, the decimal string of the candidate extractor for N in 1..49 and
\* its estimate "~N" for N in {2,4,6,8,10} give N, and the sentinels
\* "Not specified" and "Not Specified" give 0
C27_ReadBack ==
    fcall.op = "_extract_years_from_text" /\ fcall.returned =>
        LET text == fcall.args[1]
        IN  /\ \A n \in 1..19 :
                  text = Str(_extract_experience_requirements(str(n) \o " years experience"))
                      => text = Str(str(n) \o " years") /\ fcall.result = n
            /\ \A n \in 1..49 : \A job_count \in 0..Len(job_indicators) :
                  text = Str(experience_years({1, n}, job_count))
                      => text = Str(str(n)) /\ fcall.result = n
            /\ \A job_count \in 1..Len(job_indicators) :
                  text = Str(experience_years({}, job_count))
                      => text = Str("~" \o str(2 * job_count)) /\ fcall.result = 2 * job_count
            /\ text \in {Str(_extract_experience_requirements("experience required")),
                         Str(experience_years({}, 0))}
                  => text \in {Str("Not specified"), Str("Not Specified")} /\ fcall.result = 0

\* the estimate of a resume with five job indicators is read as 10 years
C27_Witness ==
    /\ fcall.op = "_extract_years_from_text" /\ fcall.returned
    /\ fcall.args[1] = Str(experience_years({}, 5))
    /\ fcall.args[1] = Str("~10")
    /\ fcall.result = 10

\* C28: against a positive experience requirement, a candidate whose
\* experience is read as 0 years (missing or unparseable) never gets a higher
\* experience score than a candidate whose experience is read as a positive
\* number of years
C28_MissingNeverAhead ==
    /\ fcall.op = "_score_experience_match" /\ fcall.returned
    /\ _extract_years_from_text(fcall.args[1]) = 0
    /\ _extract_years_from_text(fcall.args[2]) > 0
    => \A other \in CandidateExperienceTexts :
          _extract_years_from_text(other) > 0
              => RLe(fcall.result, _score_experience_match(other, fcall.args[2]))

\* the lists with the items of q in another order
Reordered(q) ==
    {[i \in 1..Len(q) |-> q[p[i]]] : p \in Permutations(1..Len(q))}

\* C29: the skills score is the same for every order of the required skills
\* and every order of the candidate's skills
C29_OrderIndependent ==
    fcall.op = "_score_skills_match" /\ fcall.returned =>
        \A cs \in Reordered(fcall.args[1].v) : \A rs \in Reordered(fcall.args[2]) :
            _score_skills_match(List(cs), rs) = fcall.result

\* the partial match of the first required skill is found with the second
\* skill of the candidate
C29_Witness ==
    /\ fcall.op = "_score_skills_match" /\ fcall.returned
    /\ fcall.args[1] = List(<<"Docker", "js">>)
    /\ fcall.args[2] = <<"JavaScript", "Python">>
    /\ fcall.result = RInt(35)
    /\ <<"Python", "JavaScript">> \in Reordered(fcall.args[2])

\* C30: a skill more in a non-empty list of candidate skills, at its end or
\* at its head, never lowers the skills score against the same required skills
C30_MoreSkillsNeverLower ==
    fcall.op = "_score_skills_match" /\ fcall.returned /\ fcall.args[1].v # <<>> =>
        \A skill \in CandidateSkillPool \cup RequiredSkillPool :
            /\ RLe(fcall.result,
                   _score_skills_match(List(Append(fcall.args[1].v, skill)), fcall.args[2]))
            /\ RLe(fcall.result,
                   _score_skills_match(List(<<skill>> \o fcall.args[1].v), fcall.args[2]))

\* a candidate with the one required skill: a second skill leaves the score
\* at 100, and "js" added to a list without a match raises it
C30_Witness ==
    /\ fcall.op = "_score_skills_match" /\ fcall.returned
    /\ fcall.args[1] = List(<<"python">>)
    /\ fcall.args[2] = <<"Python">>
    /\ fcall.result = RInt(100)
    /\ _score_skills_match(List(<<"python", "Docker">>), fcall.args[2]) = RInt(100)
    /\ _score_skills_match(List(<<"Docker">>), <<"JavaScript">>) = RInt(0)
    /\ _score_skills_match(List(<<"Docker", "js">>), <<"JavaScript">>) = RInt(70)

====
